---------------------------- MODULE Spec2Model ----------------------------
(***************************************************************************)
(* Model of the AI 2027 tabletop-exercise data tool: the Dataset schema    *)
(* (dataSchema, both revisions), the web data editor (MainWindow with its  *)
(* load / save / local-storage paths), the JavaScript date and JSON        *)
(* conversions the editor goes through, the chart (log transform, axis     *)
(* ticks, chart data, dragging of points), the toasts, and the desktop     *)
(* application's editor window and chart window with the `data` events     *)
(* between them.                                                           *)
(*                                                                         *)
(* JavaScript objects that the code mutates in place (row objects and      *)
(* their `values` objects) live in a heap: rowObj and valObj map object    *)
(* identities to contents, and data.rows is a sequence of identities.      *)
(***************************************************************************)
EXTENDS Integers, Sequences, FiniteSets, TLC

(***************************************************************************)
(* Bounds of the model.                                                    *)
(***************************************************************************)
\* Number of user operations in one run of the editor.
MaxOps == 2
\* Largest number of rows of a document handed to the validator.
MaxDocRows == 2
\* Largest number of headers of a document handed to the validator.
MaxDocHeaders == 2

VARIABLES
    \* ---- web editor (App + MainWindow) ----
    data,          \* React state `data`: [headers, rows (row object ids)]
    rowObj,        \* heap: row object id -> [date, values (id), hidden]
    valObj,        \* heap: values object id -> (key -> number)
    localStorage,  \* localStorage item 'ai-progress-data' (text or none)
    lastToast,     \* the most recent showToast call
    lastOp,        \* the most recent handler invocation and its arguments
    loadedData,    \* the value most recently handed to applyLoadedData
    download,      \* the file most recently written by downloadJson
    nOps,          \* number of operations so far
    timeZone,      \* the time zone of the JavaScript runtime
    today,         \* the runtime's current local date
    \* ---- schema validator exercised on its own ----
    input,         \* parsed JSON value given to dataSchema.safeParse
    phase,         \* position of the validation / round-trip run
    outcome,       \* results computed so far
    \* ---- chart (ChartWindow, draggable variant) ----
    localData,     \* state `localData`: [headers, rows (row object ids)]
    isDragging,    \* state `isDragging`
    dragData,      \* state `dragData` (header, dataIndex), or none
    tooltipData,   \* state `tooltipData` / `tooltipPosition`, or none
    updates,       \* the Datasets handed to onDataUpdate so far
    innerHeight,   \* window.innerHeight of the chart's window
    \* ---- log transform and axis tick formatter exercised on their own ----
    calc,          \* inputs, position and results of the calculation
    \* ---- toasts (ToastProvider) ----
    toasts,        \* state `toasts`, each toast with the serial number of its call
    timers,        \* the setTimeout callbacks not yet run, by toast id
    nShown,        \* number of showToast calls so far
    \* ---- desktop application (editor window and chart window) ----
    desk,          \* editor window state: [headers, rows], or not mounted
    channel,       \* `data` events emitted and not yet handled by the chart window
    listening,     \* the chart window's listener is registered
    chartWindow,   \* chart window state `data` (a Dataset, or null), last event handled
    emitted,       \* number of emit("data", ...) calls so far
    alerted        \* the text of the most recent alert(), or none

editorVars ==
    <<data, rowObj, valObj, localStorage, lastToast, lastOp, loadedData,
      download, nOps, timeZone, today>>
schemaVars ==
    <<input, phase, outcome>>
chartVars ==
    <<localData, isDragging, dragData, tooltipData, updates, innerHeight>>
toastVars ==
    <<toasts, timers, nShown>>
desktopVars ==
    <<desk, channel, listening, chartWindow, emitted, alerted>>
vars ==
    <<data, rowObj, valObj, localStorage, lastToast, lastOp, loadedData,
      download, nOps, timeZone, today, input, phase, outcome,
      localData, isDragging, dragData, tooltipData, updates, innerHeight, calc,
      toasts, timers, nShown,
      desk, channel, listening, chartWindow, emitted, alerted>>

(***************************************************************************)
(* Small utilities.                                                        *)
(***************************************************************************)
Min(a, b) ==
    IF a <= b THEN a ELSE b

Range(s) ==
    {s[i] : i \in 1..Len(s)}

\* s.filter(keep) for a predicate given as the set of kept positions
SelectIdx(s, keepIdx) ==
    LET F[i \in 0..Len(s)] ==
            IF i = 0 THEN <<>>
            ELSE IF i \in keepIdx THEN Append(F[i - 1], s[i]) ELSE F[i - 1]
    IN  F[Len(s)]

\* All sequences over S of length 0..n
SeqsUpTo(S, n) ==
    UNION {[1..k -> S] : k \in 0..n}

(***************************************************************************)
(* Calendar dates and JavaScript Date.                                     *)
(*                                                                         *)
(* A date string "yyyy-MM-dd" is the triple <<y, m, d>>.  A Date object is *)
(* an instant <<y, m, d, h>> in UTC (hour precision).  `new Date(s)` of a  *)
(* date-only ISO string is UTC midnight; date-fns addMonths / subMonths /  *)
(* format work on the runtime's local time.                                *)
(***************************************************************************)
IsLeapYear(y) ==
    (y % 4 = 0 /\ y % 100 # 0) \/ y % 400 = 0

DaysInMonth(y, m) ==
    IF m = 2 THEN (IF IsLeapYear(y) THEN 29 ELSE 28)
    ELSE IF m \in {4, 6, 9, 11} THEN 30 ELSE 31

IsValidDate(d) ==
    /\ d[2] \in 1..12
    /\ d[3] \in 1..DaysInMonth(d[1], d[2])

PrevDay(d) ==
    IF d[3] > 1 THEN <<d[1], d[2], d[3] - 1>>
    ELSE IF d[2] > 1 THEN <<d[1], d[2] - 1, DaysInMonth(d[1], d[2] - 1)>>
    ELSE <<d[1] - 1, 12, 31>>

NextDay(d) ==
    IF d[3] < DaysInMonth(d[1], d[2]) THEN <<d[1], d[2], d[3] + 1>>
    ELSE IF d[2] < 12 THEN <<d[1], d[2] + 1, 1>>
    ELSE <<d[1] + 1, 1, 1>>

TimeZones ==
    {"UTC", "America/New_York", "Europe/Berlin"}

\* Daylight saving time, to the month: April to October.
InDst(m) ==
    m \in 4..10

\* Hours to add to UTC to get local time in `zone` during month m.
UtcOffset(zone, m) ==
    CASE zone = "UTC" -> 0
      [] zone = "America/New_York" -> IF InDst(m) THEN 0 - 4 ELSE 0 - 5
      [] zone = "Europe/Berlin" -> IF InDst(m) THEN 2 ELSE 1

\* Carry an hour count outside 0..23 into the date.
CarryHours(d, h) ==
    IF h < 0 THEN LET p == PrevDay(d) IN <<p[1], p[2], p[3], h + 24>>
    ELSE IF h > 23 THEN LET n == NextDay(d) IN <<n[1], n[2], n[3], h - 24>>
    ELSE <<d[1], d[2], d[3], h>>

\* Local wall-clock reading <<y, m, d, h>> of a UTC instant.
LocalOf(zone, t) ==
    CarryHours(<<t[1], t[2], t[3]>>, t[4] + UtcOffset(zone, t[2]))

\* UTC instant of a local wall-clock reading.
UtcOf(zone, l) ==
    CarryHours(<<l[1], l[2], l[3]>>, l[4] - UtcOffset(zone, l[2]))

\* new Date("yyyy-MM-dd"): a date-only ISO string is UTC midnight.
NewDate(d) ==
    <<d[1], d[2], d[3], 0>>

\* date-fns format(date, "yyyy-MM-dd"): the local calendar date.
Format(zone, t) ==
    LET l == LocalOf(zone, t) IN <<l[1], l[2], l[3]>>

\* date-fns addMonths(date, n), n possibly negative: same local day of the
\* month and time of day, n months on, the day clamped to the month's end.
AddMonths(zone, t, n) ==
    LET l   == LocalOf(zone, t)
        idx == l[1] * 12 + (l[2] - 1) + n
        y   == idx \div 12
        m   == (idx % 12) + 1
    IN  UtcOf(zone, <<y, m, Min(l[3], DaysInMonth(y, m)), l[4]>>)

SubMonths(zone, t, n) ==
    AddMonths(zone, t, 0 - n)

\* Date.getTime() up to a strictly increasing encoding.
GetTime(t) ==
    ((t[1] * 12 + t[2]) * 31 + t[3]) * 24 + t[4]


(***************************************************************************)
(* JavaScript / JSON values.  Every value carries its type tag first.      *)
(* A string of the shape dddd-dd-dd is kept as its three numbers.          *)
(***************************************************************************)
\* A number is kept to six decimals: the number x is the integer x * One.
One ==
    1000000

\* The JavaScript number n, n an integer.
Num(n) ==
    <<"number", n * One>>
NaN ==
    <<"NaN">>
Undefined ==
    <<"undefined">>
Bool(b) ==
    <<"boolean", b>>
JNull ==
    <<"null">>
JStr(s) ==
    <<"string", s>>
JDateStr(d) ==
    <<"datestring", d>>
JArr(s) ==
    <<"array", s>>
JObj(f) ==
    <<"object", f>>

IsNum(v) ==
    v[1] = "number"
IsBool(v) ==
    v[1] = "boolean"
IsArr(v) ==
    v[1] = "array"
IsObj(v) ==
    v[1] = "object"
HasKey(o, k) ==
    k \in DOMAIN o[2]

\* The object without the keys in ks (delete o[k]).
Without(f, ks) ==
    [k \in (DOMAIN f) \ ks |-> f[k]]

\* The object with key k set to v ({...f, [k]: v}, or f[k] = v).
WithKey(f, k, v) ==
    [x \in (DOMAIN f) \cup {k} |-> IF x = k THEN v ELSE f[x]]

(***************************************************************************)
(* JavaScript arithmetic on numbers kept to six decimals (the number x is   *)
(* the integer x * One).  Math.log and Math.exp are computed on that grid   *)
(* (argument reduction by powers of two, then one shift-and-add pass over  *)
(* the factors 1 + 2^-i kept to eight decimals), so that, as with doubles, *)
(* every result is the true value rounded to the precision at hand.        *)
(***************************************************************************)
\* A number given in units of 1 / One.
Fixed(x) ==
    <<"number", x>>

\* 1.0 for the eight-decimal intermediate results.
MantissaOne ==
    One * 100

\* ln 2 to eight decimals
LN2 ==
    69314718

\* ln(1 + 2^-i) to eight decimals, i = 1..27
LnTable ==
    <<40546511, 22314355, 11778304, 6062462, 3077166, 1550419, 778214,
      389864, 195122, 97609, 48816, 24411, 12206, 6103, 3052, 1526, 763,
      381, 191, 95, 48, 24, 12, 6, 3, 1, 1>>

\* The largest k with 2^k <= x / One (x >= One).
RECURSIVE Log2Floor(_, _)
Log2Floor(x, k) ==
    IF x \div (2 ^ (k + 1)) >= One THEN Log2Floor(x, k + 1) ELSE k

\* y in [1, 2) is multiplied up towards 2 by the factors 1 + 2^-i; acc sums
\* the logarithms of the factors used.
RECURSIVE LnPass(_, _, _)
LnPass(y, i, acc) ==
    IF i > Len(LnTable) THEN <<y, acc>>
    ELSE LET t == y + (y \div (2 ^ i))
         IN  IF t <= 2 * MantissaOne THEN LnPass(t, i + 1, acc + LnTable[i])
             ELSE LnPass(y, i + 1, acc)

\* Math.log(x) for x >= 1
MathLog(x) ==
    LET k == Log2Floor(x, 0)
        p == 2 ^ k
        y == (x \div p) * 100 + ((x % p) * 100) \div p
        r == LnPass(y, 1, 0)
        lnm == LN2 - r[2] - ((2 * MantissaOne - r[1]) \div 2)
    IN  (k * LN2 + lnm + 50) \div 100

\* r in [0, ln 2) is used up by the logarithms of the factors 1 + 2^-i; y is
\* the product of the factors used.
RECURSIVE ExpPass(_, _, _)
ExpPass(r, i, y) ==
    IF i > Len(LnTable) THEN <<r, y>>
    ELSE IF r >= LnTable[i]
         THEN ExpPass(r - LnTable[i], i + 1, y + (y \div (2 ^ i)))
         ELSE ExpPass(r, i + 1, y)

\* Math.exp(x) for x >= 0
MathExp(x) ==
    LET xg == x * 100
        k == xg \div LN2
        r == ExpPass(xg - k * LN2, 1, MantissaOne)
        y == r[2] + ((r[2] \div 1000) * r[1]) \div (MantissaOne \div 1000)
        p == 2 ^ k
    IN  (y \div 100) * p + ((y % 100) * p + 50) \div 100

\* Number.prototype.toString: the digits of n in a field of w digits
RECURSIVE PadDigits(_, _)
PadDigits(n, w) ==
    IF w = 0 THEN "" ELSE PadDigits(n \div 10, w - 1) \o ToString(n % 10)

\* the fraction fr / 10^w without its trailing zeros
RECURSIVE FracString(_, _)
FracString(fr, w) ==
    IF fr % 10 = 0 THEN FracString(fr \div 10, w - 1) ELSE PadDigits(fr, w)

\* String(v) of a JavaScript number, as a template literal prints it
NumberToString(v) ==
    IF v = NaN THEN "NaN"
    ELSE LET a == IF v[2] < 0 THEN 0 - v[2] ELSE v[2]
             fr == a % One
         IN  (IF v[2] < 0 THEN "-" ELSE "")
                \o ToString(a \div One)
                \o (IF fr = 0 THEN "" ELSE "." \o FracString(fr, 6))

\* Math.round(v * 100) / 100
RoundTo2(v) ==
    IF v = NaN THEN NaN
    ELSE Fixed(((v[2] + (One \div 200)) \div (One \div 100)) * (One \div 100))

(***************************************************************************)
(* dataSchema (zod).  `schema` is "relaxed" for src/src/dataSchema.ts      *)
(* (positive values, row keys a subset of the headers) and "strict" for    *)
(* the other revision (non-negative values, row keys matching the headers  *)
(* in membership and in number).                                           *)
(***************************************************************************)
Schemas ==
    {"relaxed", "strict"}

\* z.number().check(z.positive()) / z.number().check(z.nonnegative())
ValueOk(schema, v) ==
    /\ IsNum(v)
    /\ IF schema = "relaxed" THEN v[2] > 0 ELSE v[2] >= 0

\* z.iso.date()
IsoDateOk(v) ==
    /\ v[1] = "datestring"
    /\ IsValidDate(v[2])

\* The row object schema: date, values, optional hidden.
RowShapeOk(schema, r) ==
    /\ IsObj(r)
    /\ HasKey(r, "date") /\ IsoDateOk(r[2]["date"])
    /\ HasKey(r, "values") /\ IsObj(r[2]["values"])
    /\ \A k \in DOMAIN r[2]["values"][2] : ValueOk(schema, r[2]["values"][2][k])
    /\ HasKey(r, "hidden") => IsBool(r[2]["hidden"])

\* z.object({headers: z.array(z.string()), rows: z.array(z.object(...))})
ShapeOk(schema, doc) ==
    /\ IsObj(doc)
    /\ HasKey(doc, "headers") /\ IsArr(doc[2]["headers"])
    /\ \A i \in DOMAIN doc[2]["headers"][2] : doc[2]["headers"][2][i][1] = "string"
    /\ HasKey(doc, "rows") /\ IsArr(doc[2]["rows"])
    /\ \A i \in DOMAIN doc[2]["rows"][2] : RowShapeOk(schema, doc[2]["rows"][2][i])

\* The typed value zod returns for a document of the right shape: unknown
\* keys are stripped, an absent `hidden` reads as undefined.
TypedRow(r) ==
    [date   |-> r[2]["date"][2],
     values |-> r[2]["values"][2],
     hidden |-> IF HasKey(r, "hidden") THEN r[2]["hidden"] ELSE Undefined]

TypedData(doc) ==
    [headers |-> [i \in DOMAIN doc[2]["headers"][2] |-> doc[2]["headers"][2][i][2]],
     rows    |-> [i \in DOMAIN doc[2]["rows"][2] |-> TypedRow(doc[2]["rows"][2][i])]]

\* headers.includes(key)
Includes(headers, key) ==
    \E i \in DOMAIN headers : headers[i] = key

\* rows.some in place of rows.every
RefineRelaxedSomeRow(d) ==
    \E i \in DOMAIN d.rows :
        \A key \in DOMAIN d.rows[i].values : Includes(d.headers, key)

\* dataSchema.ts: every row key is a header.
RefineRelaxed(d) ==
    \A i \in DOMAIN d.rows :
        \A key \in DOMAIN d.rows[i].values : Includes(d.headers, key)

\* the key-count comparison left out
RefineStrictNoCount(d) ==
    \A i \in DOMAIN d.rows :
        \A key \in DOMAIN d.rows[i].values : Includes(d.headers, key)

\* strict revision: every row key is a header, and as many keys as headers.
RefineStrict(d) ==
    \A i \in DOMAIN d.rows :
        /\ \A key \in DOMAIN d.rows[i].values : Includes(d.headers, key)
        /\ Cardinality(DOMAIN d.rows[i].values) = Len(d.headers)

NoData ==
    [headers |-> <<>>, rows |-> <<>>]

\* dataSchema.safeParse(doc)
SafeParse(schema, doc) ==
    IF ~ShapeOk(schema, doc) THEN [success |-> FALSE, data |-> NoData]
    ELSE LET d  == TypedData(doc)
             ok == IF schema = "relaxed" THEN RefineRelaxed(d) ELSE RefineStrict(d)
         IN  [success |-> ok, data |-> IF ok THEN d ELSE NoData]

(***************************************************************************)
(* JSON text.  A text is either the serialisation of a JSON value or       *)
(* something JSON.parse throws on.                                         *)
(***************************************************************************)
Garbage ==
    <<"garbage">>

\* What JSON.stringify writes for a number-typed property value:
\* NaN becomes null; undefined properties are omitted by the caller.
JsonOfNumber(v) ==
    IF v = NaN THEN JNull ELSE v

JsonOfValues(f) ==
    LET kept == {k \in DOMAIN f : f[k] # Undefined}
    IN  JObj([k \in kept |-> JsonOfNumber(f[k])])

JsonOfRow(r) ==
    JObj([k \in (IF r.hidden = Undefined THEN {"date", "values"}
                 ELSE {"date", "values", "hidden"}) |->
            CASE k = "date" -> JDateStr(r.date)
              [] k = "values" -> JsonOfValues(r.values)
              [] k = "hidden" -> r.hidden])

\* JSON.stringify(d) of a Data value d (by value).
JSONstringify(d) ==
    <<"json",
      JObj([k \in {"headers", "rows"} |->
              IF k = "headers"
              THEN JArr([i \in DOMAIN d.headers |-> JStr(d.headers[i])])
              ELSE JArr([i \in DOMAIN d.rows |-> JsonOfRow(d.rows[i])])])>>

\* the rows array written in place of the Dataset
JsonStringRowsOnly(d) ==
    <<"json", JArr([i \in DOMAIN d.rows |-> JsonOfRow(d.rows[i])])>>

\* storageService.downloadJson: jsonString = JSON.stringify(data, null, 2)
JsonString(d) ==
    JSONstringify(d)

\* JSON.parse(text): ok = FALSE when it throws.
JSONparse(text) ==
    IF text[1] = "json" THEN [ok |-> TRUE, value |-> text[2]]
    ELSE [ok |-> FALSE, value |-> JNull]


(***************************************************************************)
(* Records of what the user has seen and done.                             *)
(***************************************************************************)
NoToast ==
    [title |-> "", type |-> "none"]
Toast(title, type) ==
    [title |-> title, type |-> type]

NoOp ==
    [op |-> "none", row |-> 0, header |-> "", arg |-> ""]
Op(name, row, header, arg) ==
    [op |-> name, row |-> row, header |-> header, arg |-> arg]

\* dragData === null
NoDrag ==
    [header |-> "", dataIndex |-> 0]

\* tooltipData === null
NoTooltip ==
    [shown |-> FALSE, label |-> <<>>, payload |-> <<>>]

\* The chart is not mounted.
ChartParked ==
    /\ localData = NoData
    /\ isDragging = FALSE
    /\ dragData = NoDrag
    /\ tooltipData = NoTooltip
    /\ updates = <<>>
    /\ innerHeight = 0

NoCalc ==
    [phase |-> "parked", variant |-> "", a |-> NaN, b |-> NaN,
     fa |-> NaN, fb |-> NaN, back |-> NaN, tick |-> ""]

\* No calculation is under way.
CalcParked ==
    calc = NoCalc

\* The toast provider is not mounted.
ToastParked ==
    /\ toasts = <<>>
    /\ timers = <<>>
    /\ nShown = 0

\* The chart window's `data` is null.
NoChartWindowData ==
    [present |-> FALSE, data |-> [headers |-> <<>>, rows |-> <<>>],
     handled |-> 0, error |-> FALSE]

\* The desktop application is not running.
DesktopParked ==
    /\ desk = [headers |-> <<>>, rows |-> <<>>]
    /\ channel = <<>>
    /\ listening = FALSE
    /\ chartWindow = NoChartWindowData
    /\ emitted = 0
    /\ alerted = ""

(***************************************************************************)
(* The validator on its own: a bounded set of parsed JSON documents, each  *)
(* validated, and, when accepted, serialised and loaded again.             *)
(***************************************************************************)
DocHeaderNames ==
    {"A", "B"}
DocKeys ==
    {"A", "B", "C"}
ADate ==
    <<2027, 10, 14>>

DocRow(date, values, hiddenKeys, hidden) ==
    JObj([k \in {"date", "values"} \cup hiddenKeys |->
            CASE k = "date" -> date
              [] k = "values" -> values
              [] k = "hidden" -> hidden])

Doc(headers, rows) ==
    JObj([k \in {"headers", "rows"} |->
            IF k = "headers" THEN JArr(headers) ELSE JArr(rows)])

\* Well-typed rows over every subset of the keys A, B, C.
KeyRows ==
    {DocRow(JDateStr(ADate), JObj([k \in ks |-> Num(1)]), {}, JNull) :
        ks \in SUBSET DocKeys}

\* Key families: any headers over A, B (duplicates included), any rows.
KeyDocs ==
    {Doc([i \in DOMAIN hs |-> JStr(hs[i])], rs) :
        hs \in SeqsUpTo(DocHeaderNames, MaxDocHeaders),
        rs \in SeqsUpTo(KeyRows, MaxDocRows)}

\* Rows with the single key A and every typing of date, value and hidden.
TypeRows ==
    {DocRow(date, JObj([k \in {"A"} |-> v]), hk, hidden) :
        date \in {JDateStr(ADate), JDateStr(<<2027, 2, 30>>), JStr("tomorrow"), Num(1)},
        v \in {Num(2), Num(0), Num(0 - 1), JStr("1"), JNull},
        hk \in {{}, {"hidden"}},
        hidden \in {Bool(TRUE), Bool(FALSE), JNull}}

GoodRow ==
    DocRow(JDateStr(ADate), JObj([k \in {"A"} |-> Num(1)]), {}, JNull)

TypeDocs ==
    {Doc(<<JStr("A")>>, rs) :
        rs \in UNION {{<<r>>, <<GoodRow, r>>, <<r, GoodRow>>} : r \in TypeRows}}

\* Documents of the wrong shape, and documents with unknown keys.
ShapeDocs ==
    {JNull, Num(1), JArr(<<>>), JObj(<<>>),
     JObj([k \in {"headers"} |-> JArr(<<JStr("A")>>)]),
     JObj([k \in {"rows"} |-> JArr(<<GoodRow>>)]),
     JObj([k \in {"headers", "rows"} |-> JStr("A")]),
     Doc(<<Num(1)>>, <<>>),
     Doc(<<JStr("A")>>, <<JNull>>),
     Doc(<<JStr("A")>>, <<JObj([k \in {"date"} |-> JDateStr(ADate)])>>),
     Doc(<<JStr("A")>>, <<JObj([k \in {"values"} |-> JObj(<<>>)])>>),
     Doc(<<JStr("A")>>, <<DocRow(JDateStr(ADate), JArr(<<>>), {}, JNull)>>),
     JObj([k \in {"headers", "rows", "title"} |->
             CASE k = "headers" -> JArr(<<JStr("A")>>)
               [] k = "rows" -> JArr(<<GoodRow>>)
               [] k = "title" -> JStr("x")]),
     Doc(<<JStr("A")>>,
         <<JObj([k \in {"date", "values", "note"} |->
                   CASE k = "date" -> JDateStr(ADate)
                     [] k = "values" -> JObj([x \in {"A"} |-> Num(1)])
                     [] k = "note" -> JStr("x")])>>)}

Docs ==
    KeyDocs \cup TypeDocs \cup ShapeDocs

NoOutcome ==
    [result |-> [success |-> FALSE, data |-> NoData],
     text |-> Garbage,
     reloaded |-> [success |-> FALSE, data |-> NoData]]

\* parseData(fileContent) with dataSchema being `schema`: the validated
\* Dataset (ok) or null, and the toast it shows.
ParseData(schema, text) ==
    LET raw == JSONparse(text)
    IN  IF ~raw.ok
        THEN [ok |-> FALSE, data |-> NoData, toast |-> Toast("Load Error", "error")]
        ELSE LET validationResult == SafeParse(schema, raw.value)
             IN  IF ~validationResult.success
                 THEN [ok |-> FALSE, data |-> NoData,
                       toast |-> Toast("Validation Error", "error")]
                 ELSE [ok |-> TRUE, data |-> validationResult.data, toast |-> NoToast]

EditorParked ==
    /\ data = NoData
    /\ rowObj = <<>>
    /\ valObj = <<>>
    /\ localStorage = Garbage
    /\ lastToast = NoToast
    /\ lastOp = NoOp
    /\ loadedData = NoData
    /\ download = Garbage
    /\ nOps = 0
    /\ timeZone = "UTC"
    /\ today = ADate

SchemaInit ==
    /\ EditorParked
    /\ ChartParked
    /\ CalcParked
    /\ ToastParked
    /\ DesktopParked
    /\ input \in [schema : Schemas, doc : Docs]
    /\ phase = "input"
    /\ outcome = NoOutcome

\* dataSchema.safeParse(input)
Validate ==
    /\ phase = "input"
    /\ phase' = "validated"
    /\ outcome' = [outcome EXCEPT !.result = SafeParse(input.schema, input.doc)]
    /\ UNCHANGED <<input, editorVars, chartVars, calc, toastVars, desktopVars>>

\* JSON.stringify of the accepted Dataset
Serialise ==
    /\ phase = "validated"
    /\ outcome.result.success
    /\ phase' = "serialised"
    /\ outcome' = [outcome EXCEPT !.text = JsonString(outcome.result.data)]
    /\ UNCHANGED <<input, editorVars, chartVars, calc, toastVars, desktopVars>>

\* parse and validate the text again
Reload ==
    /\ phase = "serialised"
    /\ phase' = "reloaded"
    /\ LET r == ParseData(input.schema, outcome.text)
       IN  outcome' = [outcome EXCEPT !.reloaded = [success |-> r.ok, data |-> r.data]]
    /\ UNCHANGED <<input, editorVars, chartVars, calc, toastVars, desktopVars>>

SchemaNext ==
    \/ Validate
    \/ Serialise
    \/ Reload

SpecSchema ==
    SchemaInit /\ [][SchemaNext]_vars


(***************************************************************************)
(* The web application: App holds `data` (useState(DEFAULT_DATA)) and      *)
(* MainWindow edits it.                                                    *)
(***************************************************************************)
\* default-data.json: the built-in Dataset.
DEFAULT_DATA ==
    [headers |-> <<"OpenAI", "DeepCent">>,
     rows |-> <<[date |-> <<2027, 10, 14>>,
                 values |-> [k \in {"OpenAI", "DeepCent"} |-> Num(1)],
                 hidden |-> Undefined],
                [date |-> <<2028, 1, 14>>,
                 values |-> [k \in {"OpenAI", "DeepCent"} |->
                                IF k = "OpenAI" THEN Num(2) ELSE Num(1)],
                 hidden |-> Bool(FALSE)]>>]

\* The row objects (and their values objects) of DEFAULT_DATA are objects
\* 1..n of the heap for as long as the page lives.
DefaultIds ==
    DOMAIN DEFAULT_DATA.rows

\* The Dataset a heap state holds, by value.
RowValue(ro, vo, r) ==
    [date |-> ro[r].date, values |-> vo[ro[r].values], hidden |-> ro[r].hidden]

ValueOf(d, ro, vo) ==
    [headers |-> d.headers,
     rows |-> [i \in DOMAIN d.rows |-> RowValue(ro, vo, d.rows[i])]]

\* The current Dataset by value.
DataValue ==
    ValueOf(data, rowObj, valObj)

\* DEFAULT_DATA as it reads now.
DefaultValue ==
    [headers |-> DEFAULT_DATA.headers,
     rows |-> [i \in DefaultIds |-> RowValue(rowObj, valObj, i)]]

\* isNaN(value) for a value read from a values object
IsNaN(v) ==
    v = NaN \/ v = Undefined

\* prepareData(): a copy of `data` with NaN values replaced by 0.
PrepareData(d) ==
    [headers |-> d.headers,
     rows |-> [i \in DOMAIN d.rows |->
                 [date |-> d.rows[i].date,
                  values |-> [k \in DOMAIN d.rows[i].values |->
                                IF IsNaN(d.rows[i].values[k]) THEN Num(0)
                                ELSE d.rows[i].values[k]],
                  hidden |-> d.rows[i].hidden]]]

(***************************************************************************)
(* setData.  The new rows array is a sequence of items: an item either     *)
(* keeps an existing row object (ref # 0) or is a new row object, whose    *)
(* values object is new (vref = 0, contents vmap) or an existing one.      *)
(* Object identities are renumbered in order of appearance; the objects of *)
(* DEFAULT_DATA keep theirs.                                               *)
(***************************************************************************)
Keep(r) ==
    [ref |-> r, date |-> ADate, hidden |-> Undefined, vref |-> 0, vmap |-> <<>>]
Fresh(date, hidden, vmap) ==
    [ref |-> 0, date |-> date, hidden |-> hidden, vref |-> 0, vmap |-> vmap]
FreshSharing(date, hidden, vref) ==
    [ref |-> 0, date |-> date, hidden |-> hidden, vref |-> vref, vmap |-> <<>>]

KeepAll(rows) ==
    [i \in DOMAIN rows |-> Keep(rows[i])]

\* The values object of item i, as <<"old", id>> or <<"new", i>>.
ItemVal(ro, items, i) ==
    IF items[i].ref # 0 THEN <<"old", ro[items[i].ref].values>>
    ELSE IF items[i].vref # 0 THEN <<"old", items[i].vref>>
    ELSE <<"new", i>>

ItemRowId(items, i) ==
    IF items[i].ref \in DefaultIds THEN items[i].ref
    ELSE Cardinality(DefaultIds)
            + Cardinality({j \in 1..i : items[j].ref \notin DefaultIds})

ItemValIsDefault(ro, items, i) ==
    /\ ItemVal(ro, items, i)[1] = "old"
    /\ ItemVal(ro, items, i)[2] \in DefaultIds

\* Item i is the first one to use its values object.
ItemValFirst(ro, items, i) ==
    \A j \in 1..(i - 1) : ItemVal(ro, items, j) # ItemVal(ro, items, i)

ItemValId(ro, items, i) ==
    IF ItemValIsDefault(ro, items, i) THEN ItemVal(ro, items, i)[2]
    ELSE LET f == CHOOSE j \in 1..i :
                     /\ ItemVal(ro, items, j) = ItemVal(ro, items, i)
                     /\ ItemValFirst(ro, items, j)
         IN  Cardinality(DefaultIds)
                + Cardinality({j \in 1..f : /\ ~ItemValIsDefault(ro, items, j)
                                            /\ ItemValFirst(ro, items, j)})

NewRowObj(ro, vo, items) ==
    LET ids == DefaultIds \cup {ItemRowId(items, i) : i \in DOMAIN items}
    IN  [id \in ids |->
            IF \E i \in DOMAIN items : ItemRowId(items, i) = id
            THEN LET i == CHOOSE i \in DOMAIN items : ItemRowId(items, i) = id
                 IN  [date   |-> IF items[i].ref # 0 THEN ro[items[i].ref].date
                                 ELSE items[i].date,
                      values |-> ItemValId(ro, items, i),
                      hidden |-> IF items[i].ref # 0 THEN ro[items[i].ref].hidden
                                 ELSE items[i].hidden]
            ELSE ro[id]]

NewValObj(ro, vo, items) ==
    LET ids == DefaultIds \cup {ItemValId(ro, items, i) : i \in DOMAIN items}
    IN  [id \in ids |->
            IF \E i \in DOMAIN items : ItemValId(ro, items, i) = id
            THEN LET i == CHOOSE i \in DOMAIN items : ItemValId(ro, items, i) = id
                 IN  IF ItemVal(ro, items, i)[1] = "old"
                     THEN vo[ItemVal(ro, items, i)[2]]
                     ELSE items[i].vmap
            ELSE vo[id]]

\* The effect on [data]: storageService.saveData(prepareData()).
SaveData(d) ==
    JSONstringify(PrepareData(d))

\* setData({headers: hs, rows: items}) on the heap (ro, vo), followed by the
\* effect that runs when `data` has changed.
SetData(hs, items, ro, vo) ==
    /\ data' = [headers |-> hs,
                rows |-> [i \in DOMAIN items |-> ItemRowId(items, i)]]
    /\ rowObj' = NewRowObj(ro, vo, items)
    /\ valObj' = NewValObj(ro, vo, items)
    /\ localStorage' = SaveData(ValueOf(data', rowObj', valObj'))

\* A handler that returns without calling setData.
NoSetData ==
    UNCHANGED <<data, rowObj, valObj, localStorage>>

Environment ==
    UNCHANGED <<timeZone, today, schemaVars, chartVars, calc, toastVars, desktopVars>>

SchemaParked ==
    /\ input = [schema |-> "relaxed", doc |-> JNull]
    /\ phase = "parked"
    /\ outcome = NoOutcome

\* The page after its first load with an empty local storage.
Init ==
    /\ timeZone \in TimeZones
    /\ today \in {<<2026, 11, 1>>}
    /\ data = [headers |-> DEFAULT_DATA.headers, rows |-> [i \in DefaultIds |-> i]]
    /\ rowObj = [i \in DefaultIds |->
                    [date |-> DEFAULT_DATA.rows[i].date,
                     values |-> i,
                     hidden |-> DEFAULT_DATA.rows[i].hidden]]
    /\ valObj = [i \in DefaultIds |-> DEFAULT_DATA.rows[i].values]
    /\ localStorage = SaveData(DEFAULT_DATA)
    /\ lastToast = NoToast
    /\ lastOp = NoOp
    /\ loadedData = NoData
    /\ download = Garbage
    /\ nOps = 0
    /\ SchemaParked
    /\ ChartParked
    /\ CalcParked
    /\ ToastParked
    /\ DesktopParked

\* Every handler below is one user operation.
Invoke(op) ==
    /\ nOps < MaxOps
    /\ nOps' = nOps + 1
    /\ lastOp' = op
    /\ Environment

\* The object of row i of `data`.
RowAt(i) ==
    rowObj[data.rows[i]]

ValuesAt(i) ==
    valObj[RowAt(i).values]

\* addRow, the branch for a Dataset without rows
AddRowEmpty ==
    /\ data.rows = <<>>
    /\ SetData(data.headers,
               <<Fresh(Format(timeZone, NewDate(<<2027, 10, 14>>)),
                       Bool(FALSE),
                       [h \in Range(data.headers) |-> Num(1)])>>,
               rowObj, valObj)

\* addRow, the branch that appends after the last row
AddRowAppend ==
    /\ data.rows # <<>>
    /\ LET last == Len(data.rows)
           lastRowDate == NewDate(RowAt(last).date)
           newDate == AddMonths(timeZone, lastRowDate, 3)
       IN  SetData(data.headers,
                   Append(KeepAll(data.rows),
                          Fresh(Format(timeZone, newDate), Bool(TRUE), ValuesAt(last))),
                   rowObj, valObj)

AddRow ==
    /\ Invoke(Op("addRow", 0, "", ""))
    /\ \/ AddRowEmpty
       \/ AddRowAppend
    /\ UNCHANGED <<lastToast, loadedData, download>>

\* addColumn
AddColumn ==
    /\ Invoke(Op("addColumn", 0, "", ""))
    /\ LET newHeader == "Lab " \o ToString(Len(data.headers) + 1)
       IN  SetData(Append(data.headers, newHeader),
                   [i \in DOMAIN data.rows |->
                       Fresh(RowAt(i).date, RowAt(i).hidden,
                             WithKey(ValuesAt(i), newHeader, Num(1)))],
                   rowObj, valObj)
    /\ UNCHANGED <<lastToast, loadedData, download>>

\* removeColumn(headerToRemove), from the delete button of a column
RemoveColumn ==
    \E headerToRemove \in Range(data.headers) :
        /\ Invoke(Op("removeColumn", 0, headerToRemove, ""))
        /\ SetData(SelectIdx(data.headers,
                             {i \in DOMAIN data.headers : data.headers[i] # headerToRemove}),
                   [i \in DOMAIN data.rows |->
                       Fresh(RowAt(i).date, RowAt(i).hidden,
                             Without(ValuesAt(i), {headerToRemove}))],
                   rowObj, valObj)
        /\ UNCHANGED <<lastToast, loadedData, download>>

\* What the user may type into a header field.
NameInputs ==
    {"", "Lab 3"}

\* newValues[newHeader] = newValues[oldHeader]; delete newValues[oldHeader]
Rekey(values, oldHeader, newHeader) ==
    Without(WithKey(values, newHeader,
                    IF oldHeader \in DOMAIN values THEN values[oldHeader]
                    ELSE Undefined),
            {oldHeader})

\* updateHeader(oldHeader, newHeader), from the input field of a column
UpdateHeader ==
    \E oldHeader \in Range(data.headers) :
        \E newHeader \in NameInputs \cup Range(data.headers) :
            /\ Invoke(Op("updateHeader", 0, oldHeader, newHeader))
            /\ IF Includes(data.headers, newHeader) /\ newHeader # oldHeader
               THEN /\ lastToast' = Toast("Validation Error", "error")
                    /\ NoSetData
               ELSE /\ SetData([i \in DOMAIN data.headers |->
                                   IF data.headers[i] = oldHeader THEN newHeader
                                   ELSE data.headers[i]],
                               [i \in DOMAIN data.rows |->
                                   Fresh(RowAt(i).date, RowAt(i).hidden,
                                         Rekey(ValuesAt(i), oldHeader, newHeader))],
                               rowObj, valObj)
                    /\ UNCHANGED lastToast
            /\ UNCHANGED <<loadedData, download>>

\* The `disabled` condition of the month-forward button of row i.
IncrementDisabled(i) ==
    /\ i < Len(data.rows)
    /\ GetTime(AddMonths(timeZone, NewDate(RowAt(i).date), 1))
          >= GetTime(NewDate(RowAt(i + 1).date))

\* The `disabled` condition of the month-back button of row i.
DecrementDisabled(i) ==
    /\ i > 1
    /\ GetTime(SubMonths(timeZone, NewDate(RowAt(i).date), 1))
          <= GetTime(NewDate(RowAt(i - 1).date))

\* incrementMonth(rowIndex): the row object is changed in place
IncrementMonth ==
    \E i \in DOMAIN data.rows :
        /\ ~IncrementDisabled(i)
        /\ Invoke(Op("incrementMonth", i, "", ""))
        /\ LET newDate == AddMonths(timeZone, NewDate(RowAt(i).date), 1)
           IN  SetData(data.headers, KeepAll(data.rows),
                       [rowObj EXCEPT ![data.rows[i]].date = Format(timeZone, newDate)],
                       valObj)
        /\ UNCHANGED <<lastToast, loadedData, download>>

\* decrementMonth(rowIndex): the row object is changed in place
DecrementMonth ==
    \E i \in DOMAIN data.rows :
        /\ ~DecrementDisabled(i)
        /\ Invoke(Op("decrementMonth", i, "", ""))
        /\ LET newDate == SubMonths(timeZone, NewDate(RowAt(i).date), 1)
           IN  SetData(data.headers, KeepAll(data.rows),
                       [rowObj EXCEPT ![data.rows[i]].date = Format(timeZone, newDate)],
                       valObj)
        /\ UNCHANGED <<lastToast, loadedData, download>>

\* What a number input field may hand over as its value.
ValueInputs ==
    {"", "0", "2", "-1"}

\* parseFloat on those strings
ParseFloat(str) ==
    CASE str = "" -> NaN
      [] str = "0" -> Num(0)
      [] str = "2" -> Num(2)
      [] str = "-1" -> Num(0 - 1)

\* updateValue(rowIndex, header, value): the values object is changed in place
UpdateValue ==
    \E i \in DOMAIN data.rows :
        \E header \in Range(data.headers) :
            \E value \in ValueInputs :
                /\ Invoke(Op("updateValue", i, header, value))
                /\ LET numValue == ParseFloat(value)
                   IN  SetData(data.headers, KeepAll(data.rows), rowObj,
                               [valObj EXCEPT ![RowAt(i).values] =
                                   WithKey(@, header, numValue)])
                /\ UNCHANGED <<lastToast, loadedData, download>>

\* removeRow(rowIndex)
RemoveRow ==
    \E rowIndex \in DOMAIN data.rows :
        /\ Invoke(Op("removeRow", rowIndex, "", ""))
        /\ SetData(data.headers,
                   KeepAll(SelectIdx(data.rows, (DOMAIN data.rows) \ {rowIndex})),
                   rowObj, valObj)
        /\ UNCHANGED <<lastToast, loadedData, download>>

\* toggleRowVisibility(rowIndex): the row object is changed in place
ToggleRowVisibility ==
    \E i \in DOMAIN data.rows :
        /\ Invoke(Op("toggleRowVisibility", i, "", ""))
        /\ SetData(data.headers, KeepAll(data.rows),
                   [rowObj EXCEPT ![data.rows[i]].hidden = Bool(RowAt(i).hidden # Bool(TRUE))],
                   valObj)
        /\ UNCHANGED <<lastToast, loadedData, download>>

\* resetToDefaultData: setData(DEFAULT_DATA), the imported object itself
ResetToDefaultData ==
    /\ Invoke(Op("resetToDefaultData", 0, "", ""))
    /\ SetData(DEFAULT_DATA.headers, [i \in DefaultIds |-> Keep(i)], rowObj, valObj)
    /\ lastToast' = Toast("Reset", "info")
    /\ UNCHANGED <<loadedData, download>>

\* saveDataToFile.  downloadJson catches what goes wrong inside it, so the
\* caller shows its success toast whether or not a file was written.
SaveDataToFile ==
    \E written \in BOOLEAN :
        /\ Invoke(Op("saveDataToFile", 0, "", IF written THEN "written" ELSE "failed"))
        /\ download' = IF written THEN JsonString(PrepareData(DataValue)) ELSE download
        /\ lastToast' = Toast("Success", "success")
        /\ NoSetData
        /\ UNCHANGED loadedData

\* The schema the editor imports ("./dataSchema").
EditorSchema ==
    "relaxed"

\* row.hidden ?? false
HiddenOrFalse(h) ==
    IF h = Undefined \/ h = JNull THEN Bool(FALSE) ELSE h

\* applyLoadedData(loadedData): new row objects around the loaded values
ApplyLoadedData(loaded, ro, vo) ==
    /\ SetData(loaded.headers,
               [i \in DOMAIN loaded.rows |->
                   Fresh(loaded.rows[i].date, HiddenOrFalse(loaded.rows[i].hidden),
                         loaded.rows[i].values)],
               ro, vo)
    /\ loadedData' = loaded

\* Files the user may pick in the Load dialog, by name.
Files ==
    [name \in {"garbage.json", "one.json", "two.json", "empty.json",
               "foreign.json", "negative.json"} |->
        CASE name = "garbage.json" -> Garbage
          [] name = "one.json" ->
                <<"json", Doc(<<JStr("A")>>,
                              <<DocRow(JDateStr(<<2027, 10, 14>>),
                                       JObj([k \in {"A"} |-> Num(1)]), {}, JNull)>>)>>
          [] name = "two.json" ->
                <<"json", Doc(<<JStr("A"), JStr("B")>>,
                              <<DocRow(JDateStr(<<2027, 11, 30>>),
                                       JObj([k \in {"A", "B"} |-> Num(2)]),
                                       {"hidden"}, Bool(TRUE)),
                                DocRow(JDateStr(<<2027, 12, 31>>),
                                       JObj([k \in {"A"} |-> Num(3)]), {}, JNull)>>)>>
          [] name = "empty.json" ->
                <<"json", Doc(<<JStr("A"), JStr("B")>>, <<>>)>>
          [] name = "foreign.json" ->
                <<"json", Doc(<<JStr("A")>>,
                              <<DocRow(JDateStr(<<2027, 10, 14>>),
                                       JObj([k \in {"A", "C"} |-> Num(1)]), {}, JNull)>>)>>
          [] name = "negative.json" ->
                <<"json", Doc(<<JStr("A")>>,
                              <<DocRow(JDateStr(<<2027, 10, 14>>),
                                       JObj([k \in {"A"} |-> Num(0 - 1)]), {}, JNull)>>)>>]

HandleFileLoadUnchecked ==
    \E name \in DOMAIN Files :
        /\ Invoke(Op("handleFileLoad", 0, "", name))
        /\ LET raw == JSONparse(Files[name])
               validatedData == ParseData(EditorSchema, Files[name])
           IN  IF raw.ok /\ ShapeOk(EditorSchema, raw.value)
               THEN /\ ApplyLoadedData(TypedData(raw.value), rowObj, valObj)
                    /\ lastToast' = IF validatedData.ok THEN Toast("Success", "success")
                                    ELSE validatedData.toast
               ELSE /\ lastToast' = validatedData.toast
                    /\ NoSetData
                    /\ UNCHANGED loadedData
        /\ UNCHANGED download

\* handleFileLoad(fileContent)
HandleFileLoad ==
    \E name \in DOMAIN Files :
        /\ Invoke(Op("handleFileLoad", 0, "", name))
        /\ LET validatedData == ParseData(EditorSchema, Files[name])
           IN  IF validatedData.ok
               THEN /\ ApplyLoadedData(validatedData.data, rowObj, valObj)
                    /\ lastToast' = Toast("Success", "success")
               ELSE /\ lastToast' = validatedData.toast
                    /\ NoSetData
                    /\ UNCHANGED loadedData
        /\ UNCHANGED download

\* storageService.loadData(): the stored text parsed and taken to be a Data
\* value as it is (no call of dataSchema).
LoadData(text) ==
    LET raw == JSONparse(text)
    IN  IF raw.ok THEN [found |-> TRUE, data |-> TypedData(raw.value)]
        ELSE [found |-> FALSE, data |-> NoData]

\* The page is loaded again: the module objects are new, `data` starts as
\* DEFAULT_DATA and loadCachedData installs what local storage holds.
Startup ==
    /\ Invoke(Op("startup", 0, "", ""))
    /\ LET cachedData == LoadData(localStorage)
           ro == [i \in DefaultIds |->
                     [date |-> DEFAULT_DATA.rows[i].date,
                      values |-> i,
                      hidden |-> DEFAULT_DATA.rows[i].hidden]]
           vo == [i \in DefaultIds |-> DEFAULT_DATA.rows[i].values]
       IN  /\ cachedData.found
           /\ ApplyLoadedData(cachedData.data, ro, vo)
    /\ lastToast' = NoToast
    /\ UNCHANGED download

Next ==
    \/ AddRow
    \/ AddColumn
    \/ RemoveColumn
    \/ UpdateHeader
    \/ IncrementMonth
    \/ DecrementMonth
    \/ UpdateValue
    \/ RemoveRow
    \/ ToggleRowVisibility
    \/ ResetToDefaultData
    \/ SaveDataToFile
    \/ HandleFileLoad
    \/ Startup

Spec ==
    Init /\ [][Next]_vars

(***************************************************************************)
(* The chart's log transform and axis tick formatter.                      *)
(***************************************************************************)
\* applyLogTransform with Math.log(value) in place of Math.log(value) + 1
ApplyLogTransformNoOffset(value) ==
    IF value = NaN THEN NaN
    ELSE IF value[2] <= One THEN value
    ELSE Fixed(MathLog(value[2]))

\* applyLogTransform(value)
ApplyLogTransform(value) ==
    IF value = NaN THEN NaN
    ELSE IF value[2] <= One THEN value
    ELSE Fixed(MathLog(value[2]) + One)

\* reverseLogTransform with Math.exp(value) in place of Math.exp(value - 1)
ReverseLogTransformUnshifted(value) ==
    IF value = NaN THEN NaN
    ELSE IF value[2] <= One THEN value
    ELSE Fixed(MathExp(value[2]))

\* reverseLogTransform(value)
ReverseLogTransform(value) ==
    IF value = NaN THEN NaN
    ELSE IF value[2] <= One THEN value
    ELSE Fixed(MathExp(value[2] - One))

CUSTOM_Y_TICKS ==
    <<Num(2), Num(3), Num(10), Num(100), Num(2000)>>

TRANSFORMED_Y_TICKS ==
    [i \in DOMAIN CUSTOM_Y_TICKS |-> ApplyLogTransform(CUSTOM_Y_TICKS[i])]

\* The keys of an object literal are strings.
CUSTOM_Y_LABELS ==
    [k \in {"2", "3", "10", "100", "2000"} |->
        CASE k = "2" -> "Weak Autonomous remote worker"
          [] k = "3" -> "Autonomous remote worker"
          [] k = "10" -> "Strong autonomous remote worker"
          [] k = "100" -> "Superhuman genius"
          [] k = "2000" -> "Superintelligence"]

\* " — " (an em dash between two spaces) in a template literal
EmDash ==
    " -- "

\* The revisions of the chart: "draggable" is the chart with drag editing,
\* "desktop" the chart of the desktop application.
ChartVariants ==
    {"draggable", "desktop"}

\* formatYAxisTick(value)
FormatYAxisTick(variant, value) ==
    LET originalValue == ReverseLogTransform(value)
        roundedValue == RoundTo2(originalValue)
        key == NumberToString(roundedValue)
        found == key \in DOMAIN CUSTOM_Y_LABELS
    IN  IF variant = "draggable"
        THEN IF found THEN key \o "x" \o EmDash \o CUSTOM_Y_LABELS[key]
             ELSE key \o "x"
        ELSE key \o "x" \o EmDash
                \o (IF found THEN CUSTOM_Y_LABELS[key] ELSE key)

\* Values the transform is tried on: both branches, the branch point and
\* its neighbours, the anchors, and neighbours in the last decimal.
TransformInputs ==
    {0, One \div 2, One - 1, One, One + 1, 1234567, 2 * One, 2 * One + 1,
     3 * One, 5 * One, 10 * One, 100 * One, 2000 * One - 1, 2000 * One}

TransformInit ==
    /\ EditorParked
    /\ SchemaParked
    /\ ChartParked
    /\ ToastParked
    /\ DesktopParked
    /\ \E variant \in ChartVariants :
          \E a \in TransformInputs :
             \E b \in TransformInputs :
                calc = [NoCalc EXCEPT !.phase = "input", !.variant = variant,
                                      !.a = Fixed(a), !.b = Fixed(b)]

\* chartData: applyLogTransform of the two values
Transform ==
    /\ calc.phase = "input"
    /\ calc' = [calc EXCEPT !.phase = "transformed",
                            !.fa = ApplyLogTransform(calc.a),
                            !.fb = ApplyLogTransform(calc.b)]
    /\ UNCHANGED <<editorVars, schemaVars, chartVars, toastVars, desktopVars>>

\* the tooltip: reverseLogTransform of a plotted value
Invert ==
    /\ calc.phase = "transformed"
    /\ calc' = [calc EXCEPT !.phase = "inverted",
                            !.back = ReverseLogTransform(calc.fa)]
    /\ UNCHANGED <<editorVars, schemaVars, chartVars, toastVars, desktopVars>>

\* the Y axis: formatYAxisTick of a display coordinate
FormatTick ==
    /\ calc.phase = "inverted"
    /\ calc' = [calc EXCEPT !.phase = "formatted",
                            !.tick = FormatYAxisTick(calc.variant, calc.fa)]
    /\ UNCHANGED <<editorVars, schemaVars, chartVars, toastVars, desktopVars>>

TransformNext ==
    \/ Transform
    \/ Invert
    \/ FormatTick

SpecTransform ==
    TransformInit /\ [][TransformNext]_vars

(***************************************************************************)
(* The chart (ChartWindow).  Its `data` prop is the Dataset of the owner;  *)
(* row objects and values objects are the owner's own (the same heap).     *)
(***************************************************************************)
\* date-fns parseISO("yyyy-MM-dd"): local midnight of that day
ParseISO(zone, d) ==
    UtcOf(zone, <<d[1], d[2], d[3], 0>>)

\* The positions of d.rows, every one kept: the chart without its filter.
VisibleIdxUnfiltered(d, ro) ==
    [i \in DOMAIN d.rows |-> i]

\* [...rows].filter((row) => !row.hidden), as positions of d.rows
VisibleIdx(d, ro) ==
    SelectIdx([i \in DOMAIN d.rows |-> i],
              {i \in DOMAIN d.rows : ro[d.rows[i]].hidden # Bool(TRUE)})

\* The sort key of the row at position i: new Date(row.date).getTime()
SortKey(d, ro, i) ==
    GetTime(NewDate(ro[d.rows[i]].date))

\* Array.prototype.sort with that comparator (stable): position x goes
\* behind the last element of the sorted s that is not after it.
RECURSIVE InsertByTime(_, _, _, _)
InsertByTime(d, ro, s, x) ==
    IF s = <<>> THEN <<x>>
    ELSE IF SortKey(d, ro, s[Len(s)]) <= SortKey(d, ro, x) THEN Append(s, x)
    ELSE Append(InsertByTime(d, ro, SubSeq(s, 1, Len(s) - 1), x), s[Len(s)])

RECURSIVE SortByTime(_, _, _)
SortByTime(d, ro, s) ==
    IF s = <<>> THEN <<>>
    ELSE InsertByTime(d, ro, SortByTime(d, ro, SubSeq(s, 1, Len(s) - 1)), s[Len(s)])

\* sortedRows, as positions of d.rows
SortedRows(d, ro) ==
    SortByTime(d, ro, VisibleIdx(d, ro))

\* One element of chartData: { date, timestamp, ...transformedValues }
ChartEntry(zone, row) ==
    [k \in {"date", "timestamp"} \cup DOMAIN row.values |->
        IF k \in DOMAIN row.values
        THEN IF IsNum(row.values[k]) \/ row.values[k] = NaN
             THEN ApplyLogTransform(row.values[k])
             ELSE row.values[k]
        ELSE IF k = "date" THEN JDateStr(row.date)
        ELSE <<"time", GetTime(ParseISO(zone, row.date))>>]

\* chartData of a chart whose Dataset is d
ChartData(zone, d, ro, vo) ==
    LET sortedRows == SortedRows(d, ro)
    IN  [j \in DOMAIN sortedRows |->
            ChartEntry(zone, RowValue(ro, vo, d.rows[sortedRows[j]]))]

\* Largest number of mouse events on the chart in one run.
MaxEvents ==
    4

\* window.innerHeight, in pixels: a window whose plot area has no height
\* (the chart is innerHeight - 150 high, its margins take 30 + 50), and an
\* ordinary one.
InnerHeights ==
    {230, 730}

\* Where the pointer may be (svgCoords.y): above the plot area, on its top
\* edge, in its middle, on its bottom edge.
MouseYs ==
    {20, 30, 280, 530}

\* (a * b) / c without leaving the range of the integers at hand
MulDiv(a, b, c) ==
    (a \div c) * b + ((a % c) * b) \div c

\* Math.max(lo, Math.min(hi, x)); NaN when x is NaN
Clamp(lo, hi, x) ==
    IF x = NaN THEN NaN
    ELSE IF x[2] < lo THEN Fixed(lo) ELSE IF x[2] > hi THEN Fixed(hi) ELSE x

\* handleMouseMove: svgCoords.y >= plotTop && svgCoords.y <= plotBottom
InPlot(height, y) ==
    LET chartHeight == height - 150
        plotTop == 30
        plotBottom == chartHeight - 50
    IN  y >= plotTop /\ y <= plotBottom

\* The value handleMouseMove computes for the pointer at y inside the plot
\* area.  A plot area of height 0 makes relativeY 0 / 0, which is NaN, and
\* NaN goes through the transform, Math.min and Math.max as NaN.
DragValue(height, y) ==
    LET chartHeight == height - 150
        plotTop == 30
        plotBottom == chartHeight - 50
        plotHeight == plotBottom - plotTop
        minTransformedValue == ApplyLogTransform(Num(1))[2]
        maxTransformedValue == ApplyLogTransform(Num(2000))[2]
        targetTransformedValue ==
            IF plotHeight = 0 THEN NaN
            ELSE Fixed(minTransformedValue
                         + MulDiv(maxTransformedValue - minTransformedValue,
                                  plotBottom - y, plotHeight))
    IN  Clamp(One, 2000 * One,
              IF targetTransformedValue = NaN THEN NaN
              ELSE ReverseLogTransform(targetTransformedValue))

\* Datasets the owner may hold when the chart is mounted: two rows in either
\* order, each hidden or not.
ChartRowValues ==
    <<[date |-> <<2027, 10, 14>>,
       values |-> [k \in {"OpenAI", "DeepCent"} |-> Num(1)]],
      [date |-> <<2028, 1, 14>>,
       values |-> [k \in {"OpenAI", "DeepCent"} |->
                      IF k = "OpenAI" THEN Num(2) ELSE Num(3)]]>>

\* The chart is mounted on the owner's Dataset: useState<Data>(data)
ChartInit ==
    /\ timeZone \in TimeZones
    /\ today = ADate
    /\ \E order \in {<<1, 2>>, <<2, 1>>} :
          \E hidden \in [1..2 -> {Bool(FALSE), Bool(TRUE)}] :
             /\ rowObj = [i \in 1..2 |->
                             [date |-> ChartRowValues[order[i]].date,
                              values |-> i,
                              hidden |-> hidden[i]]]
             /\ valObj = [i \in 1..2 |-> ChartRowValues[order[i]].values]
    /\ data = [headers |-> <<"OpenAI", "DeepCent">>, rows |-> <<1, 2>>]
    /\ localData = data
    /\ innerHeight \in InnerHeights
    /\ isDragging = FALSE
    /\ dragData = NoDrag
    /\ tooltipData = NoTooltip
    /\ updates = <<>>
    /\ localStorage = Garbage
    /\ lastToast = NoToast
    /\ lastOp = NoOp
    /\ loadedData = NoData
    /\ download = Garbage
    /\ nOps = 0
    /\ SchemaParked
    /\ CalcParked
    /\ ToastParked
    /\ DesktopParked

\* One mouse event on the chart.
ChartEvent(op) ==
    /\ nOps < MaxEvents
    /\ nOps' = nOps + 1
    /\ lastOp' = op
    /\ UNCHANGED <<data, localStorage, lastToast, loadedData, download,
                   timeZone, today, innerHeight, schemaVars, calc,
                   toastVars, desktopVars>>

\* chartData of the mounted chart
LocalChartData ==
    ChartData(timeZone, localData, rowObj, valObj)

\* chartData.findIndex(row => row.timestamp === timestamp), from 1; 0 is -1
FindIndex(cd, timestamp) ==
    LET hits == {j \in DOMAIN cd : cd[j]["timestamp"] = timestamp}
    IN  IF hits = {} THEN 0 ELSE CHOOSE j \in hits : \A x \in hits : j <= x

\* onMouseDown of the dot of `header` at element j of chartData, then
\* handleMouseDown(header, dataIndex, event, value)
HandleMouseDown ==
    \E header \in Range(localData.headers) :
        \E j \in DOMAIN LocalChartData :
            LET dataIndex == FindIndex(LocalChartData, LocalChartData[j]["timestamp"])
            IN  /\ dataIndex # 0
                /\ ChartEvent(Op("handleMouseDown", j, header, ""))
                /\ isDragging' = TRUE
                /\ dragData' = [header |-> header, dataIndex |-> dataIndex]
                /\ tooltipData' = NoTooltip
                /\ UNCHANGED <<localData, rowObj, valObj, updates>>

\* handleMouseMove(event) with the pointer at y: the values object of
\* localData.rows[dragData.dataIndex] is changed in place
HandleMouseMove ==
    \E y \in MouseYs :
        /\ isDragging
        /\ dragData # NoDrag
        /\ ChartEvent(Op("handleMouseMove", y, "", ""))
        /\ LET newValue == DragValue(innerHeight, y)
               row == rowObj[localData.rows[dragData.dataIndex]]
           IN  IF InPlot(innerHeight, y)
               THEN valObj' = [valObj EXCEPT ![row.values] =
                                  WithKey(@, dragData.header, newValue)]
               ELSE UNCHANGED valObj
        /\ UNCHANGED <<localData, rowObj, isDragging, dragData, tooltipData, updates>>

\* handleMouseUp(): onDataUpdate(localData), then the drag state is cleared.
\* The event is recorded with the point that was being dragged.
HandleMouseUp ==
    /\ isDragging
    /\ ChartEvent(Op("handleMouseUp", dragData.dataIndex, dragData.header, ""))
    /\ updates' = IF dragData # NoDrag
                  THEN Append(updates, ValueOf(localData, rowObj, valObj))
                  ELSE updates
    /\ isDragging' = FALSE
    /\ dragData' = NoDrag
    /\ UNCHANGED <<localData, rowObj, valObj, tooltipData>>

\* onClick of a dot of element j of chartData, then handleDotClick
HandleDotClick ==
    \E j \in DOMAIN LocalChartData :
        /\ ChartEvent(Op("handleDotClick", j, "", ""))
        /\ IF isDragging
           THEN UNCHANGED tooltipData
           ELSE LET entry == LocalChartData[j]
                    named == [i \in DOMAIN localData.headers |->
                                 [name |-> localData.headers[i],
                                  value |-> IF localData.headers[i] \in DOMAIN entry
                                            THEN entry[localData.headers[i]]
                                            ELSE Undefined]]
                IN  tooltipData' =
                        [shown |-> TRUE,
                         label |-> entry["timestamp"],
                         payload |-> SelectIdx(named,
                                        {i \in DOMAIN named :
                                            IsNum(named[i].value) \/ named[i].value = NaN})]
        /\ UNCHANGED <<localData, rowObj, valObj, isDragging, dragData, updates>>

\* handleClickOutside: a mouse-down away from the dots and the tooltip
HandleClickOutside ==
    /\ tooltipData # NoTooltip
    /\ ChartEvent(Op("handleClickOutside", 0, "", ""))
    /\ tooltipData' = NoTooltip
    /\ UNCHANGED <<localData, rowObj, valObj, isDragging, dragData, updates>>

ChartNext ==
    \/ HandleMouseDown
    \/ HandleMouseMove
    \/ HandleMouseUp
    \/ HandleDotClick
    \/ HandleClickOutside

SpecChart ==
    ChartInit /\ [][ChartNext]_vars

(***************************************************************************)
(* Toasts: ToastProvider (components/ui/toast.tsx).                        *)
(***************************************************************************)
\* Largest number of showToast calls in one run.
MaxToasts ==
    3

\* Math.random().toString(36).substring(2, 9): nothing keeps two calls from
\* returning the same string.
ToastIds ==
    {"k3f9x2a", "p0q8w1z"}

\* The calls MainWindow makes: showToast(message, {title, type})
ToastCalls ==
    {[message |-> "File saved successfully", title |-> "Success", type |-> "success"],
     [message |-> "Data reset to default values", title |-> "Reset", type |-> "info"],
     [message |-> "A column with this name already exists",
      title |-> "Validation Error", type |-> "error"]}

\* prev.filter((toast) => toast.id !== id)
WithoutId(list, id) ==
    SelectSeq(list, LAMBDA toast : toast.id # id)

\* ToastProvider mounted: useState<Toast[]>([])
ToastInit ==
    /\ EditorParked
    /\ SchemaParked
    /\ ChartParked
    /\ CalcParked
    /\ DesktopParked
    /\ toasts = <<>>
    /\ timers = <<>>
    /\ nShown = 0

\* showToast(message, options): the toast is appended and its timer is set
ShowToast ==
    \E id \in ToastIds :
        \E call \in ToastCalls :
            /\ nShown < MaxToasts
            /\ nShown' = nShown + 1
            /\ toasts' = Append(toasts, [id |-> id, message |-> call.message,
                                         title |-> call.title, type |-> call.type,
                                         serial |-> nShown + 1])
            /\ timers' = Append(timers, [id |-> id, serial |-> nShown + 1])
            /\ UNCHANGED <<editorVars, schemaVars, chartVars, calc, desktopVars>>

\* dismissToast(toast.id), from the X button of the toast shown at position i
DismissToast ==
    \E i \in DOMAIN toasts :
        /\ toasts' = WithoutId(toasts, toasts[i].id)
        /\ UNCHANGED <<timers, nShown>>
        /\ UNCHANGED <<editorVars, schemaVars, chartVars, calc, desktopVars>>

\* The setTimeout callback of the oldest pending timer runs (all timers have
\* the same delay, so they run in the order they were set).
TimerFires ==
    /\ timers # <<>>
    /\ toasts' = WithoutId(toasts, Head(timers).id)
    /\ timers' = Tail(timers)
    /\ UNCHANGED nShown
    /\ UNCHANGED <<editorVars, schemaVars, chartVars, calc, desktopVars>>

ToastNext ==
    \/ ShowToast
    \/ DismissToast
    \/ TimerFires

SpecToast ==
    ToastInit /\ [][ToastNext]_vars

\* The browser runs every timer that has been set.
SpecToastLive ==
    SpecToast /\ WF_vars(TimerFires)

(***************************************************************************)
(* The desktop application: the editor window (MainWindow, desktop         *)
(* revision) holds `headers` and `rows` and emits a `data` event after     *)
(* every change; the chart window (ChartWindow) registers a listener and   *)
(* keeps what the events carry.  Events travel as JSON, and an event       *)
(* emitted while no listener is registered is delivered to no one.         *)
(***************************************************************************)
\* Number of user operations in one run of the desktop editor.
MaxDeskOps ==
    3

\* The first render of MainWindow has happened (its effect has emitted).
Mounted ==
    emitted > 0

\* useState initial values of MainWindow
DeskInitialState ==
    [headers |-> <<"AI Speedup 1", "AI Speedup 2">>,
     rows |-> <<[date |-> today,
                 values |-> [k \in {"AI Speedup 1", "AI Speedup 2"} |->
                                IF k = "AI Speedup 1" THEN Fixed(1200000)
                                ELSE Fixed(1500000)],
                 hidden |-> Undefined]>>]

\* Both windows are about to start.
DeskInit ==
    /\ data = NoData
    /\ rowObj = <<>>
    /\ valObj = <<>>
    /\ localStorage = Garbage
    /\ lastToast = NoToast
    /\ lastOp = NoOp
    /\ loadedData = NoData
    /\ download = Garbage
    /\ nOps = 0
    /\ timeZone \in TimeZones
    /\ today = ADate
    /\ SchemaParked
    /\ ChartParked
    /\ CalcParked
    /\ ToastParked
    /\ DesktopParked

\* Everything outside the two desktop windows stays as it is.
DeskFrame ==
    UNCHANGED <<data, rowObj, valObj, localStorage, lastToast, loadedData,
                download, timeZone, today, schemaVars, chartVars, calc, toastVars>>

\* useEffect(() => emit("data", {headers, rows}), [headers, rows]): the
\* payload is serialised when emitted and reaches the registered listener.
Emit(state) ==
    /\ emitted' = emitted + 1
    /\ channel' = IF listening
                  THEN Append(channel, [seq |-> emitted + 1,
                                        payload |-> JSONstringify(state)[2]])
                  ELSE channel

\* A handler of the editor window that set new state: the state is
\* installed and the effect emits it.
SetDeskState(state) ==
    /\ desk' = state
    /\ Emit(state)
    /\ UNCHANGED alerted

\* A handler that returned early, having set no state.
NoDeskState ==
    UNCHANGED <<desk, channel, emitted>>

\* One user operation on the editor window.
DeskInvoke(op) ==
    /\ Mounted
    /\ nOps < MaxDeskOps
    /\ nOps' = nOps + 1
    /\ lastOp' = op
    /\ UNCHANGED <<listening, chartWindow>>
    /\ DeskFrame

\* The editor window renders for the first time; its effect emits.
MountEditor ==
    /\ ~Mounted
    /\ desk' = DeskInitialState
    /\ Emit(DeskInitialState)
    /\ UNCHANGED <<nOps, lastOp, listening, chartWindow, alerted>>
    /\ DeskFrame

\* rows.length <= 1, headers.length <= 1
AtMostOne(s) ==
    Len(s) <= 1

\* addRow (desktop): rows[rows.length - 1] of an empty array is undefined
\* and reading its date throws before any state is set
DeskAddRow ==
    /\ DeskInvoke(Op("addRow", 0, "", ""))
    /\ IF desk.rows = <<>>
       THEN NoDeskState /\ UNCHANGED alerted
       ELSE LET lastRowDate == NewDate(desk.rows[Len(desk.rows)].date)
                newDate == AddMonths(timeZone, lastRowDate, 3)
            IN  SetDeskState([desk EXCEPT !.rows =
                    Append(@, [date |-> Format(timeZone, newDate),
                               values |-> [h \in Range(desk.headers) |-> Num(1)],
                               hidden |-> Undefined])])

\* addColumn (desktop)
DeskAddColumn ==
    /\ DeskInvoke(Op("addColumn", 0, "", ""))
    /\ LET newHeader == "AI Speedup " \o ToString(Len(desk.headers) + 1)
       IN  SetDeskState([headers |-> Append(desk.headers, newHeader),
                         rows |-> [i \in DOMAIN desk.rows |->
                                     [desk.rows[i] EXCEPT !.values =
                                         WithKey(@, newHeader, Num(1))]]])

\* removeColumn(headerToRemove) (desktop)
DeskRemoveColumn ==
    \E headerToRemove \in Range(desk.headers) :
        /\ DeskInvoke(Op("removeColumn", 0, headerToRemove, ""))
        /\ IF AtMostOne(desk.headers)
           THEN /\ alerted' = "You must have at least one column"
                /\ NoDeskState
           ELSE SetDeskState(
                    [headers |-> SelectSeq(desk.headers,
                                           LAMBDA header : header # headerToRemove),
                     rows |-> [i \in DOMAIN desk.rows |->
                                 [desk.rows[i] EXCEPT !.values =
                                     Without(@, {headerToRemove})]]])

\* updateHeader(oldHeader, newHeader) (desktop)
DeskUpdateHeader ==
    \E oldHeader \in Range(desk.headers) :
        \E newHeader \in NameInputs \cup Range(desk.headers) :
            /\ DeskInvoke(Op("updateHeader", 0, oldHeader, newHeader))
            /\ IF newHeader = "" \/ Includes(desk.headers, newHeader)
               THEN NoDeskState /\ UNCHANGED alerted
               ELSE SetDeskState(
                        [headers |-> [i \in DOMAIN desk.headers |->
                                        IF desk.headers[i] = oldHeader THEN newHeader
                                        ELSE desk.headers[i]],
                         rows |-> [i \in DOMAIN desk.rows |->
                                     [desk.rows[i] EXCEPT !.values =
                                         Rekey(@, oldHeader, newHeader)]]])

\* incrementMonth(rowIndex) / decrementMonth(rowIndex) (desktop)
DeskShiftMonth ==
    \E i \in DOMAIN desk.rows :
        \E by \in {1, 0 - 1} :
            /\ DeskInvoke(Op(IF by = 1 THEN "incrementMonth" ELSE "decrementMonth",
                             i, "", ""))
            /\ LET newDate == AddMonths(timeZone, NewDate(desk.rows[i].date), by)
               IN  SetDeskState([desk EXCEPT !.rows[i].date = Format(timeZone, newDate)])

\* updateValue(rowIndex, header, value) (desktop)
DeskUpdateValue ==
    \E i \in DOMAIN desk.rows :
        \E header \in Range(desk.headers) :
            \E value \in ValueInputs :
                /\ DeskInvoke(Op("updateValue", i, header, value))
                /\ LET numValue == ParseFloat(value)
                   IN  IF numValue = NaN
                       THEN NoDeskState /\ UNCHANGED alerted
                       ELSE SetDeskState([desk EXCEPT !.rows[i].values =
                                             WithKey(@, header, numValue)])

\* removeRow(rowIndex) (desktop)
DeskRemoveRow ==
    \E i \in DOMAIN desk.rows :
        /\ DeskInvoke(Op("removeRow", i, "", ""))
        /\ IF AtMostOne(desk.rows)
           THEN /\ alerted' = "You must have at least one row"
                /\ NoDeskState
           ELSE SetDeskState([desk EXCEPT !.rows =
                                 SelectIdx(@, DOMAIN @ \ {i})])

\* The chart window's listen("data", ...) has been registered.
RegisterListener ==
    /\ ~listening
    /\ listening' = TRUE
    /\ UNCHANGED <<desk, channel, chartWindow, emitted, alerted, nOps, lastOp>>
    /\ DeskFrame

\* The listener runs for the oldest event not yet handled:
\* dataSchema.parse(event.payload) throws or its result is installed.
HandleDataEvent ==
    /\ channel # <<>>
    /\ LET event == Head(channel)
           parsedData == SafeParse(EditorSchema, event.payload)
       IN  chartWindow' =
               IF parsedData.success
               THEN [present |-> TRUE, data |-> parsedData.data,
                     handled |-> event.seq, error |-> FALSE]
               ELSE [chartWindow EXCEPT !.handled = event.seq, !.error = TRUE]
    /\ channel' = Tail(channel)
    /\ UNCHANGED <<desk, listening, emitted, alerted, nOps, lastOp>>
    /\ DeskFrame

DeskNext ==
    \/ MountEditor
    \/ RegisterListener
    \/ HandleDataEvent
    \/ DeskAddRow
    \/ DeskAddColumn
    \/ DeskRemoveColumn
    \/ DeskUpdateHeader
    \/ DeskShiftMonth
    \/ DeskUpdateValue
    \/ DeskRemoveRow

SpecDesktop ==
    DeskInit /\ [][DeskNext]_vars

\* Both windows start, registered listeners are called, and the user may
\* at any time stop editing.
SpecDesktopLive ==
    /\ SpecDesktop
    /\ WF_vars(MountEditor)
    /\ WF_vars(RegisterListener)
    /\ WF_vars(HandleDataEvent)

(***************************************************************************)
(* Properties of the schema validator.                                     *)
(***************************************************************************)
\* Some row of the document has a `values` key that is not among `headers`.
HasForeignKey(doc) ==
    /\ IsObj(doc)
    /\ HasKey(doc, "headers") /\ IsArr(doc[2]["headers"])
    /\ HasKey(doc, "rows") /\ IsArr(doc[2]["rows"])
    /\ \E i \in DOMAIN doc[2]["rows"][2] :
          LET r == doc[2]["rows"][2][i]
          IN  /\ IsObj(r)
              /\ HasKey(r, "values") /\ IsObj(r[2]["values"])
              /\ \E k \in DOMAIN r[2]["values"][2] :
                    \A j \in DOMAIN doc[2]["headers"][2] :
                        doc[2]["headers"][2][j] # JStr(k)

\* Row i of a document of the right shape has no key outside the headers.
RowKeysWithinHeaders(doc, i) ==
    \A k \in DOMAIN doc[2]["rows"][2][i][2]["values"][2] :
        \E j \in DOMAIN doc[2]["headers"][2] : doc[2]["headers"][2][j] = JStr(k)

\* C3: in both schema variants the validator rejects every input that has a
\* row with a `values` key that is not an element of `headers`, whatever the
\* number of rows and the position of the offending row.
C3_ForeignKeyRejected ==
    (phase # "input" /\ HasForeignKey(input.doc)) => ~outcome.result.success

\* C3 witness: a validated two-row document whose first row is clean and
\* whose second row carries the foreign key.
C3_Witness ==
    /\ phase = "validated"
    /\ ShapeOk(input.schema, input.doc)
    /\ Len(input.doc[2]["rows"][2]) = 2
    /\ RowKeysWithinHeaders(input.doc, 1)
    /\ ~RowKeysWithinHeaders(input.doc, 2)
    /\ ~outcome.result.success

\* The header strings of a document of the right shape, as a set.
DocHeaderSet(doc) ==
    {doc[2]["headers"][2][j][2] : j \in DOMAIN doc[2]["headers"][2]}

DocRowKeys(doc, i) ==
    DOMAIN doc[2]["rows"][2][i][2]["values"][2]

DocHeadersDistinct(doc) ==
    Cardinality(DocHeaderSet(doc)) = Len(doc[2]["headers"][2])

AllRowsMatchHeaders(doc) ==
    \A i \in DOMAIN doc[2]["rows"][2] : DocRowKeys(doc, i) = DocHeaderSet(doc)

\* C4 as stated: under the strict schema a well-typed input is accepted if
\* and only if every row's key set equals the set of headers, for every
\* headers sequence (duplicates included).
C4_AcceptedIffKeySetsEqual ==
    (phase # "input" /\ input.schema = "strict" /\ ShapeOk("strict", input.doc))
        => (outcome.result.success <=> AllRowsMatchHeaders(input.doc))

\* C4 amended: under the strict schema a well-typed input is accepted if and
\* only if every row's key set equals the set of headers and, when there is
\* at least one row, the headers are pairwise distinct; a row whose keys are
\* a strict subset of the headers is rejected.
C4_AcceptedIffKeysMatchDistinctHeaders ==
    (phase # "input" /\ input.schema = "strict" /\ ShapeOk("strict", input.doc))
        => (outcome.result.success <=>
                /\ AllRowsMatchHeaders(input.doc)
                /\ (DocHeadersDistinct(input.doc) \/ input.doc[2]["rows"][2] = <<>>))

\* C4 witness: a well-typed row whose keys are a strict subset of two distinct
\* headers has been rejected by the strict schema.
C4_Witness ==
    /\ phase = "validated"
    /\ input.schema = "strict"
    /\ ShapeOk("strict", input.doc)
    /\ DocHeaderSet(input.doc) = {"A", "B"}
    /\ Len(input.doc[2]["rows"][2]) = 1
    /\ DocRowKeys(input.doc, 1) = {"A"}
    /\ ~outcome.result.success

\* C5: for every Dataset d the validator accepts, serialising d and then
\* parsing and validating the text succeeds and yields a Dataset equal to d.
C5_RoundTrip ==
    phase = "reloaded" =>
        /\ outcome.reloaded.success
        /\ outcome.reloaded.data = outcome.result.data

\* C5 witness: a Dataset with two rows, one of them with a hidden flag and one
\* without, has been serialised and loaded again.
C5_Witness ==
    /\ phase = "reloaded"
    /\ Len(outcome.result.data.rows) = 2
    /\ outcome.result.data.rows[1].hidden = Bool(TRUE)
    /\ outcome.result.data.rows[2].hidden = Undefined
    /\ outcome.reloaded.data = outcome.result.data


(***************************************************************************)
(* Properties of the web editor.                                           *)
(***************************************************************************)
\* The operations of the editor table (the buttons and fields of the rows
\* and columns).
EditorOps ==
    {"addRow", "addColumn", "removeColumn", "updateHeader", "updateValue",
     "incrementMonth", "decrementMonth", "removeRow", "toggleRowVisibility"}

\* This step is the handler `name` having run.
StepOf(name) ==
    nOps' = nOps + 1 /\ lastOp'.op = name

EditorStep ==
    nOps' = nOps + 1 /\ lastOp'.op \in EditorOps

\* Every row's set of `values` keys equals the set of headers.
RowKeysMatchHeaders ==
    \A i \in DOMAIN data.rows : DOMAIN ValuesAt(i) = Range(data.headers)

\* C1: from a Dataset in which every row's set of `values` keys equals the
\* set of headers, every editor operation leads to a Dataset in which it
\* still does.
C1_RowKeysPreserved ==
    [][(RowKeysMatchHeaders /\ EditorStep) => RowKeysMatchHeaders']_vars

HeadersDistinct ==
    Cardinality(Range(data.headers)) = Len(data.headers)

\* C2: from a Dataset whose headers are pairwise distinct, every editor
\* operation leads to a Dataset whose headers are pairwise distinct.
C2_HeadersStayDistinct ==
    [][(HeadersDistinct /\ EditorStep) => HeadersDistinct']_vars

\* The text of the file `name` is not valid JSON, or its JSON fails the schema.
LoadFails(name) ==
    \/ ~JSONparse(Files[name]).ok
    \/ ~SafeParse(EditorSchema, JSONparse(Files[name]).value).success

\* The Dataset that loading the (valid) file `name` installs.
LoadedFrom(name) ==
    LET d == SafeParse(EditorSchema, JSONparse(Files[name]).value).data
    IN  [headers |-> d.headers,
         rows |-> [i \in DOMAIN d.rows |->
                     [date |-> d.rows[i].date,
                      values |-> d.rows[i].values,
                      hidden |-> IF d.rows[i].hidden = Undefined THEN Bool(FALSE)
                                 ELSE d.rows[i].hidden]]]

\* C6: a file load whose text is not valid JSON, or whose JSON fails schema
\* validation, leaves the Dataset (and the heap behind it) exactly as it was
\* and shows an error toast; a load that passes both replaces the Dataset by
\* the file's.
C6_FailedLoadChangesNothing ==
    [][StepOf("handleFileLoad") =>
          IF LoadFails(lastOp'.arg)
          THEN /\ UNCHANGED <<data, rowObj, valObj, localStorage, loadedData>>
               /\ lastToast'.type = "error"
          ELSE /\ DataValue' = LoadedFrom(lastOp'.arg)
               /\ lastToast'.type = "success"]_vars

\* C6 witness: after an edit, a file that parses but fails validation has
\* been loaded, the error toast is up and the edited Dataset is still there.
C6_Witness ==
    /\ lastOp = Op("handleFileLoad", 0, "", "foreign.json")
    /\ lastToast = Toast("Validation Error", "error")
    /\ DataValue # DEFAULT_DATA
    /\ DataValue.headers = DEFAULT_DATA.headers

\* C7: the value most recently handed to applyLoadedData, on either load
\* path, is one that dataSchema accepts.
C7_LoadedDataValidated ==
    SafeParse(EditorSchema, JSONstringify(loadedData)[2]).success

\* The calendar date n months after d, the day clamped to the month's end.
MonthsAfter(d, n) ==
    LET idx == d[1] * 12 + (d[2] - 1) + n
        y   == idx \div 12
        m   == (idx % 12) + 1
    IN  <<y, m, Min(d[3], DaysInMonth(y, m))>>

\* C8: add row on a non-empty Dataset appends exactly one row, dated 3 months
\* after the last row's date, with a copy of the last row's values (in a
\* values object of its own) and hidden = true; the earlier rows and the
\* headers are unchanged.
C8_AddRowAppends ==
    [][(StepOf("addRow") /\ data.rows # <<>>) =>
          LET n == Len(data.rows)
          IN  /\ Len(data'.rows) = n + 1
              /\ DataValue'.headers = DataValue.headers
              /\ \A i \in 1..n : DataValue'.rows[i] = DataValue.rows[i]
              /\ DataValue'.rows[n + 1].date = MonthsAfter(DataValue.rows[n].date, 3)
              /\ DataValue'.rows[n + 1].values = DataValue.rows[n].values
              /\ DataValue'.rows[n + 1].hidden = Bool(TRUE)
              /\ rowObj'[data'.rows[n + 1]].values # rowObj'[data'.rows[n]].values]_vars

\* C9: add row on a Dataset with no rows yields exactly one row, dated today,
\* with value 1.0 for every header and hidden = false; headers unchanged.
C9_AddRowOnEmpty ==
    [][(StepOf("addRow") /\ data.rows = <<>>) =>
          /\ Len(data'.rows) = 1
          /\ DataValue'.headers = DataValue.headers
          /\ DataValue'.rows[1].date = today
          /\ DataValue'.rows[1].values = [h \in Range(data.headers) |-> Num(1)]
          /\ DataValue'.rows[1].hidden = Bool(FALSE)]_vars

\* C10: remove column on a Dataset with exactly one header is rejected and
\* leaves the headers and every row's values unchanged.
C10_LastColumnStays ==
    [][(StepOf("removeColumn") /\ Len(data.headers) = 1) =>
          UNCHANGED <<data, rowObj, valObj>>]_vars

\* C11: rename header is rejected, leaving the headers and every row's values
\* unchanged, whenever the new name is empty or equals an existing header
\* other than the one being renamed.
C11_BadRenameRejected ==
    [][(/\ StepOf("updateHeader")
        /\ \/ lastOp'.arg = ""
           \/ (Includes(data.headers, lastOp'.arg) /\ lastOp'.arg # lastOp'.header))
          => DataValue' = DataValue]_vars

\* C12: renaming a header to its own current name succeeds and leaves the
\* Dataset unchanged: same headers, and every row still maps the header to
\* the value it had.
C12_SelfRenameChangesNothing ==
    [][(StepOf("updateHeader") /\ lastOp'.arg = lastOp'.header)
          => /\ lastToast' = lastToast
             /\ DataValue' = DataValue]_vars

\* Every value stored in the in-memory Dataset is a number that is not negative.
StoredValuesOk ==
    \A i \in DOMAIN data.rows :
        \A k \in DOMAIN ValuesAt(i) :
            IsNum(ValuesAt(i)[k]) /\ ValuesAt(i)[k][2] >= 0

\* The string parses to a number that is not negative.
ValueInputOk(str) ==
    IsNum(ParseFloat(str)) /\ ParseFloat(str)[2] >= 0

\* C13: update value performs no mutation when the entered string does not
\* parse to a number or the number violates the sign constraint; hence update
\* value takes a Dataset of non-negative numbers to a Dataset of non-negative
\* numbers (never NaN, never negative).
C13_UpdateValueRejectsBadInput ==
    [][StepOf("updateValue") =>
          /\ (~ValueInputOk(lastOp'.arg) => DataValue' = DataValue)
          /\ (StoredValuesOk => StoredValuesOk')]_vars

\* Calendar date a is before calendar date b.
DateBefore(a, b) ==
    \/ a[1] < b[1]
    \/ (a[1] = b[1] /\ a[2] < b[2])
    \/ (a[1] = b[1] /\ a[2] = b[2] /\ a[3] < b[3])

\* The rows' dates are strictly ascending.
DatesAscending ==
    \A i \in 1..(Len(data.rows) - 1) : DateBefore(RowAt(i).date, RowAt(i + 1).date)

\* C14: from a Dataset whose rows have strictly ascending dates, add row,
\* remove row and every shift of a date that the buttons' guards permit lead
\* to a Dataset whose rows have strictly ascending dates.
C14_DatesStayAscending ==
    [][(/\ DatesAscending
        /\ nOps' = nOps + 1
        /\ lastOp'.op \in {"addRow", "removeRow", "incrementMonth", "decrementMonth"})
          => DatesAscending']_vars

\* C20: a save whose file write fails shows an error message and no success
\* message, and a save, failed or not, leaves the in-memory Dataset unchanged.
C20_FailedSaveReported ==
    [][StepOf("saveDataToFile") =>
          /\ UNCHANGED <<data, rowObj, valObj>>
          /\ (lastOp'.arg = "failed" => lastToast'.type = "error")]_vars

(***************************************************************************)
(* Properties of the log transform and the tick formatter.                 *)
(***************************************************************************)
Abs(x) ==
    IF x < 0 THEN 0 - x ELSE x

\* C17: for every v >= 0, reverseLogTransform(applyLogTransform(v)) is v up
\* to rounding (a relative error of one part in a million, or one unit of
\* the last decimal), and the two functions agree on the branch: v <= 1
\* exactly when applyLogTransform(v) <= 1.
C17_TransformInverts ==
    calc.phase \in {"inverted", "formatted"} =>
        /\ Abs(calc.back[2] - calc.a[2]) <= (calc.a[2] \div One) + 1
        /\ (calc.a[2] <= One <=> calc.fa[2] <= One)

\* C17 witness: a value above 1 has been transformed by the logarithmic
\* branch and brought back by the exponential branch.
C17_Witness ==
    /\ calc.phase = "inverted"
    /\ calc.a = Num(5)
    /\ calc.fa[2] > 2 * One
    /\ calc.back = Num(5)

\* C18 as stated: applyLogTransform is strictly increasing on v >= 0.
C18_StrictlyIncreasing ==
    (calc.phase \in {"transformed", "inverted", "formatted"} /\ calc.a[2] < calc.b[2])
        => calc.fa[2] < calc.fb[2]

\* b exceeds a by more than the resolution of the logarithm at b.
ClearlyAbove(a, b) ==
    b - a > 2 * (b \div One) + 2

\* C18 amended: applyLogTransform is non-decreasing on v >= 0, and strictly
\* increasing between a and b when a <= 1 (pairs inside the identity branch
\* and pairs that straddle the branch point 1) or when b exceeds a by more
\* than the rounding resolution of the logarithm.
C18_NonDecreasing ==
    (calc.phase \in {"transformed", "inverted", "formatted"} /\ calc.a[2] < calc.b[2])
        => /\ calc.fa[2] <= calc.fb[2]
           /\ (calc.a[2] <= One \/ ClearlyAbove(calc.a[2], calc.b[2]))
                 => calc.fa[2] < calc.fb[2]

\* C18 witness: a pair that straddles the branch point, 1 and its upper
\* neighbour, has been transformed and kept its order.
C18_Witness ==
    /\ calc.phase = "transformed"
    /\ calc.a = Num(1)
    /\ calc.b = Fixed(One + 1)
    /\ calc.fa = Num(1)
    /\ calc.fb[2] > One

\* The tick text the rule gives for the display coordinate x: the inverse
\* transform rounded to 2 decimals, with the label when it is an anchor.
TickByRule(x) ==
    LET r == RoundTo2(ReverseLogTransform(x))
    IN  IF r \in Range(CUSTOM_Y_TICKS)
        THEN NumberToString(r) \o "x" \o EmDash \o CUSTOM_Y_LABELS[NumberToString(r)]
        ELSE NumberToString(r) \o "x"

\* C19: the formatter returns "<r>x -- <label>" when r, the inverse transform
\* rounded to 2 decimals, is one of the anchors 2, 3, 10, 100, 2000, and the
\* bare "<r>x" otherwise.
C19_TickFormat ==
    calc.phase = "formatted" => calc.tick = TickByRule(calc.fa)

(***************************************************************************)
(* Properties of the chart.                                                *)
(***************************************************************************)
\* The chart data of the chart that shows the editor's Dataset.
EditorChartData ==
    ChartData(timeZone, data, rowObj, valObj)

\* The rows the chart plots, as positions of data.rows, in plotting order.
EditorChartRows ==
    SortedRows(data, rowObj)

\* The chart data of the Dataset d has one entry for each row that is not
\* hidden and none for a hidden row, each with the row's date, in ascending
\* date order.
ChartShowsVisibleRows(zone, d, ro, vo) ==
    LET cd == ChartData(zone, d, ro, vo)
        plotted == SortedRows(d, ro)
    IN  /\ Len(cd) = Len(plotted)
        /\ Range(plotted) = {i \in DOMAIN d.rows : ro[d.rows[i]].hidden # Bool(TRUE)}
        /\ Cardinality(Range(plotted)) = Len(plotted)
        /\ \A j \in DOMAIN cd :
              cd[j]["date"] = JDateStr(ro[d.rows[plotted[j]]].date)
        /\ \A j \in 1..(Len(plotted) - 1) :
              ~DateBefore(ro[d.rows[plotted[j + 1]]].date, ro[d.rows[plotted[j]]].date)

\* C15: the chart's data contains one entry for each row whose hidden flag is
\* not true and none for a hidden row, in ascending date order; toggling a
\* row leaves it in the Dataset with its date and values intact, takes it
\* out of the chart data when it becomes hidden and puts it back when it
\* becomes visible again.
C15_ChartShowsVisibleRows ==
    [][/\ ChartShowsVisibleRows(timeZone, data, rowObj, valObj)
       /\ ChartShowsVisibleRows(timeZone', data', rowObj', valObj')
       /\ StepOf("toggleRowVisibility") =>
             LET i == lastOp'.row
                 before == ValueOf(data, rowObj, valObj)
                 after == ValueOf(data', rowObj', valObj')
             IN  /\ Len(after.rows) = Len(before.rows)
                 /\ after.headers = before.headers
                 /\ \A r \in DOMAIN before.rows :
                       /\ after.rows[r].date = before.rows[r].date
                       /\ after.rows[r].values = before.rows[r].values
                       /\ r # i => after.rows[r].hidden = before.rows[r].hidden
                 /\ (i \in Range(SortedRows(data, rowObj)))
                       <=> (i \notin Range(SortedRows(data', rowObj')))]_vars

\* C15 witness: the first of two rows has been hidden and then shown again;
\* both rows are in the chart data.
C15_Witness ==
    /\ nOps = 2
    /\ lastOp = Op("toggleRowVisibility", 1, "", "")
    /\ Len(data.rows) = 2
    /\ RowAt(1).hidden = Bool(FALSE)
    /\ EditorChartRows = <<1, 2>>
    /\ Len(EditorChartData) = 2

\* C16: the chart is not a writer of the owner's Dataset.  While a drag is in
\* progress no step of the chart changes the Dataset passed in as the data
\* prop, its row objects and their values maps included; onDataUpdate is
\* called once, by the mouse-up that ends the drag, and by no other step.
C16_ChartNeverWritesDataProp ==
    [][/\ (isDragging /\ ~StepOf("handleMouseUp")) =>
              ValueOf(data', rowObj', valObj') = ValueOf(data, rowObj, valObj)
       /\ (isDragging /\ StepOf("handleMouseUp")) =>
              /\ Len(updates') = Len(updates) + 1
              /\ updates'[Len(updates')] = ValueOf(localData, rowObj, valObj)
       /\ ~(isDragging /\ StepOf("handleMouseUp")) => updates' = updates]_vars

\* C22: reset-to-default leaves the editor holding the built-in default
\* Dataset exactly as it was when the application started, whatever was
\* edited before.
C22_ResetRestoresDefault ==
    [][StepOf("resetToDefaultData") =>
          ValueOf(data', rowObj', valObj') = DEFAULT_DATA]_vars

\* What a rename of oldHeader to newHeader is to do to a Dataset value:
\* the header keeps its position; every row maps newHeader to the value
\* oldHeader had and no longer has oldHeader; every other header, value, date
\* and hidden flag is as before, and so is the number of keys of each row.
Renamed(before, after, oldHeader, newHeader) ==
    /\ DOMAIN after.headers = DOMAIN before.headers
    /\ \A i \in DOMAIN before.headers :
          after.headers[i] = IF before.headers[i] = oldHeader THEN newHeader
                             ELSE before.headers[i]
    /\ DOMAIN after.rows = DOMAIN before.rows
    /\ \A r \in DOMAIN before.rows :
          LET old == before.rows[r]
              new == after.rows[r]
          IN  /\ new.date = old.date
              /\ new.hidden = old.hidden
              /\ oldHeader \in DOMAIN old.values
              /\ newHeader \in DOMAIN new.values
              /\ new.values[newHeader] = old.values[oldHeader]
              /\ oldHeader \notin DOMAIN new.values
              /\ \A k \in DOMAIN old.values \ {oldHeader} :
                    k \in DOMAIN new.values /\ new.values[k] = old.values[k]
              /\ Cardinality(DOMAIN new.values) = Cardinality(DOMAIN old.values)

\* C23: a rename of a header to a new name that is not empty and is not an
\* existing header keeps the header's position, re-keys every row, and
\* changes nothing else.
C23_RenameRekeysOnly ==
    [][(/\ StepOf("updateHeader")
        /\ lastOp'.arg # ""
        /\ ~Includes(data.headers, lastOp'.arg))
          => Renamed(ValueOf(data, rowObj, valObj), ValueOf(data', rowObj', valObj'),
                     lastOp'.header, lastOp'.arg)]_vars

\* The row of localData.rows (its position) that the chart displays as
\* element j of chartData.
DisplayedRow(j) ==
    SortedRows(localData, rowObj)[j]

\* C24: a drag writes to the row whose point the user pressed.  The drag
\* started by pressing the point of element j of the chart data is a drag of
\* element j, and every pointer move of a drag of element j leaves the values
\* of every row other than the one displayed as element j unchanged and
\* stores the value it computes in that row under the dragged header.
C24_DragWritesDisplayedRow ==
    [][/\ StepOf("handleMouseDown") => dragData'.dataIndex = lastOp'.row
       /\ (StepOf("handleMouseMove") /\ InPlot(innerHeight, lastOp'.row)) =>
              LET r == DisplayedRow(dragData.dataIndex)
                  before == ValueOf(localData, rowObj, valObj)
                  after == ValueOf(localData', rowObj', valObj')
              IN  /\ \A i \in DOMAIN before.rows :
                        i # r => after.rows[i] = before.rows[i]
                  /\ after.rows[r].values[dragData.header] =
                         DragValue(innerHeight, lastOp'.row)]_vars

\* A number in the closed range [1, 2000]
InDragRange(v) ==
    IsNum(v) /\ v[2] >= One /\ v[2] <= 2000 * One

\* C25: a pointer move of a drag changes no header, date or hidden flag;
\* with the pointer outside the vertical bounds of the plot area it changes
\* nothing at all; and every value it stores is a number in [1, 2000].
C25_DragWritesInRange ==
    [][StepOf("handleMouseMove") =>
          LET before == ValueOf(localData, rowObj, valObj)
              after == ValueOf(localData', rowObj', valObj')
          IN  /\ after.headers = before.headers
              /\ DOMAIN after.rows = DOMAIN before.rows
              /\ \A r \in DOMAIN before.rows :
                    /\ after.rows[r].date = before.rows[r].date
                    /\ after.rows[r].hidden = before.rows[r].hidden
                    /\ DOMAIN after.rows[r].values = DOMAIN before.rows[r].values
                    /\ \A k \in DOMAIN before.rows[r].values :
                          \/ after.rows[r].values[k] = before.rows[r].values[k]
                          \/ InDragRange(after.rows[r].values[k])
              /\ ~InPlot(innerHeight, lastOp'.row) => after = before]_vars

\* C26: a drag and the tooltip exclude each other.  While isDragging is true
\* no tooltip is shown, and the click that the browser delivers on a point
\* right after the mouse-up that ended a drag of that point leaves the
\* tooltip closed.
C26_DragExcludesTooltip ==
    /\ [](isDragging => tooltipData = NoTooltip)
    /\ [][(/\ lastOp.op = "handleMouseUp"
           /\ StepOf("handleDotClick")
           /\ lastOp'.row = lastOp.row) => tooltipData' = NoTooltip]_vars

\* The toast of the showToast call number n is in the list.
Shown(n) ==
    \E i \in DOMAIN toasts : toasts[i].serial = n

\* The list without the toast of call number n.
WithoutSerial(list, n) ==
    SelectSeq(list, LAMBDA toast : toast.serial # n)

\* C27: every toast that showToast adds is eventually removed from the list;
\* a dismissal removes one toast and leaves every other toast in the list; a
\* timer removes the toast it was set for and no other, and changes nothing
\* when that toast has already been dismissed.
C27_ToastLifetime ==
    /\ \A n \in 1..(MaxToasts + 1) : Shown(n) ~> ~Shown(n)
    /\ [][/\ (timers' = timers /\ nShown' = nShown) =>
                \E i \in DOMAIN toasts : toasts' = WithoutSerial(toasts, toasts[i].serial)
          /\ (timers # <<>> /\ timers' = Tail(timers)) =>
                toasts' = WithoutSerial(toasts, Head(timers).serial)]_vars

\* A Dataset value with every absent hidden flag read as false.
HiddenAsFalse(d) ==
    [headers |-> d.headers,
     rows |-> [i \in DOMAIN d.rows |->
                 [date |-> d.rows[i].date,
                  values |-> d.rows[i].values,
                  hidden |-> HiddenOrFalse(d.rows[i].hidden)]]]

\* C29: the file that save writes for the Dataset the editor holds is
\* accepted when it is loaded again, and what the load installs is the
\* Dataset that was saved, an absent hidden flag reading as false.
C29_SaveThenLoadClosure ==
    [][(StepOf("saveDataToFile") /\ lastOp'.arg = "written") =>
          LET validatedData == ParseData(EditorSchema, download')
          IN  /\ validatedData.ok
              /\ HiddenAsFalse(validatedData.data) =
                    HiddenAsFalse(ValueOf(data, rowObj, valObj))]_vars

\* C28: the desktop editor always holds at least one row and at least one
\* header.  Removing the only row or the only header is refused with an
\* alert and changes nothing, and add row always appends a row.
C28_DesktopKeepsRowAndHeader ==
    /\ [](Mounted => (Len(desk.rows) >= 1 /\ Len(desk.headers) >= 1))
    /\ [][/\ (StepOf("removeRow") /\ Len(desk.rows) = 1) =>
                (desk' = desk /\ alerted' = "You must have at least one row")
          /\ (StepOf("removeColumn") /\ Len(desk.headers) = 1) =>
                (desk' = desk /\ alerted' = "You must have at least one column")
          /\ StepOf("addRow") =>
                /\ Len(desk'.rows) = Len(desk.rows) + 1
                /\ SubSeq(desk'.rows, 1, Len(desk.rows)) = desk.rows]_vars

\* C21: every change of the editor window's headers or rows emits one data
\* event that carries the whole Dataset as it is after the change, and once
\* the chart window has handled the event of the editor's latest change it
\* holds the Dataset the editor holds.
C21_SnapshotPush ==
    /\ [][desk' # desk =>
             /\ emitted' = emitted + 1
             /\ listening =>
                   channel' = Append(channel, [seq |-> emitted',
                                               payload |-> JSONstringify(desk')[2]])]_vars
    /\ []((Mounted /\ chartWindow.handled = emitted) =>
             (chartWindow.present /\ chartWindow.data = desk))

\* C30: start-up of the chart window.  In whatever order the editor
\* window's first emit and the registration of the chart window's listener
\* happen, and with no edit by the user, the chart window eventually has
\* left its waiting state and holds the editor's Dataset.
C30_ChartLeavesWaiting ==
    [](nOps = 0) => <>(chartWindow.present /\ chartWindow.data = desk)

=============================================================================
